---- MODULE Spec2Model ----
(***************************************************************************)
(* TriggersAPI: event lifecycle and idempotency ledger                     *)
(* (database.py, endpoints/events.py) and the fixed-window rate limiter    *)
(* (database.py, middleware/rate_limit.py), the webhook dispatch pipeline   *)
(* (endpoints/events.py, utils/sqs.py, lambda_handlers/webhook_delivery.py)*)
(* and the inbox pagination (database.py, endpoints/inbox.py, utils.py),   *)
(* as state machines over the DynamoDB tables and the queue they read and  *)
(* write.  Every store call of a handler is one step, so that concurrent   *)
(* handlers interleave between store calls.                                *)
(***************************************************************************)
EXTENDS Integers, Sequences, FiniteSets, TLC

\* ------------------------------------------------------------------ bounds
NumWorkers == 2          \* concurrent request handlers
MaxEvents == 2           \* event ids generate_uuid hands out in one run
MaxCalls == 3            \* requests started in one run
MaxBatch == 2            \* items in one bulk request
RateLimit == 2           \* rate_limit configured for the api key
MaxTime == 90            \* last clock value
TickStep == 30           \* seconds between two clock readings
MaxRequests == 4         \* rate-limited requests started in one run
MaxFaults == 1           \* backend errors in one run
MaxWebhooks == 3         \* webhook ids create_webhook_endpoint hands out in one run
MaxWebhookCalls == 4     \* webhook requests in one run
MaxMessages == 2         \* delivery messages enqueued in one run
WebhookLimit == 2        \* Limit of the query behind get_active_webhooks_for_event (100)
MaxInboxRows == 5        \* rows of the events table when the inbox is read
MaxLimit == 2            \* largest limit of a GET /inbox
ScanLimit == 2           \* Limit of one page of get_event's fallback scan (100)
MaxKeys == 3             \* api keys of one run, the seeded one and those generate_api_key returns
MaxDays == 2             \* largest transition_days of a rotation
MaxKeyTime == 4          \* last day of the clock the api keys are read against

\* --------------------------------------------------------------- constants
WindowSeconds == 60      \* window_seconds

Workers == 1..NumWorkers
EventIds == 1..MaxEvents
MissingId == 0           \* a well-formed id that generate_uuid never produced
IdemKeys == {"k1"}
NoKey == "none"          \* Python None / key absent from metadata
Payloads == {"p1", "p2"}
BulkPayloads == {"p1"}
NoRow == [status |-> "absent"]
NoItem == 0              \* get_item response without 'Item'

VARIABLES
    events,        \* events table: event id -> row or NoRow
    idempotency,   \* idempotency table: key -> event id or NoItem
    next_uuid,     \* next id generate_uuid returns
    call,          \* per worker: the request it is handling
    ncalls,        \* requests started so far
    h_returned,    \* history: key -> event ids returned by Create calls
    h_racy,        \* history: key -> two Create calls with the key overlapped
    h_removed,     \* history: <<id, key>> of the rows a delete_item removed
    h_updates      \* history: id -> successful conditional updates

evars == <<events, idempotency, next_uuid, call, ncalls,
           h_returned, h_racy, h_removed, h_updates>>

VARIABLES
    now,           \* time.time(), epoch seconds
    rate_limits,   \* rate limits table of one api_key: window_start -> request_count or NoRecord
    req,           \* per worker: the request rate_limit_middleware is handling
    nreqs,         \* requests started so far
    nfaults,       \* backend errors injected so far
    h_total,       \* history: window_start -> requests answered
    h_admitted,    \* history: window_start -> requests passed on to call_next
    h_counted,     \* history: window_start -> requests admitted after writing the counter
    h_puts,        \* history: window_start -> put_item calls that created the counter
    h_seq          \* history: every request so far ran alone, within one tick, without backend error

rvars == <<now, rate_limits, req, nreqs, nfaults, h_total, h_admitted, h_counted, h_puts, h_seq>>

VARIABLES
    webhooks,      \* webhooks table: webhook id -> row or NoWebhook
    next_webhook,  \* next id create_webhook_endpoint generates
    nwcalls,       \* webhook requests so far
    queue,         \* delivery queue: message id -> message, in the order of send_message
    wfaults,       \* backend errors injected into the dispatch pipeline so far
    h_stopped      \* history: the webhooks that have been deactivated or deleted

wvars == <<webhooks, next_webhook, nwcalls, queue, wfaults, h_stopped>>

VARIABLES
    inbox,         \* the last GET /inbox: its parameters and its response
    h_pages,       \* history: the pages returned since the last GET /inbox without cursor
    lookup,        \* the last get_event(event_id) that went through the index and the scan
    h_pending      \* history: the ids of the events that were pending at the first page

ivars == <<inbox, h_pages, lookup, h_pending>>

VARIABLES
    wreq           \* per principal: the webhook request it has made and the response

avars == <<wreq>>

VARIABLES
    signed         \* the signed POST a subscriber was sent, and what it made of it

svars == <<signed>>

VARIABLES
    api_keys,      \* api keys table: api_key -> item or NoApiKey
    next_key,      \* next key generate_api_key returns
    today,         \* datetime.now(timezone.utc), in days
    rot,           \* the rotation request in progress
    sweep,         \* the run of the expiration handler in progress
    h_expired      \* history: the keys that have been seen expired

kvars == <<api_keys, next_key, today, rot, sweep, h_expired>>

vars == <<evars, rvars, wvars, ivars, avars, svars, kvars>>

\* ---------------------------------------------------------------- webhooks
WebhookIds == 1..MaxWebhooks
ApiKeys == {"a", "b"}
ApiKey == "a"            \* api_key of the POST /events requests
EventType == "t1"        \* event_type of the POST /events requests
Subscriptions == {{"t1"}, {"t2"}, {"*"}}
\* owner and subscribed event types of the webhooks created
WebhookInputs == {<<"a", {"t1"}>>, <<"a", {"*"}>>, <<"a", {"t2"}>>, <<"b", {"*"}>>}
NoWebhook == [is_active |-> -1]

\* the secret the caller supplies with webhook webhook_id
SecretOf(webhook_id) == <<"secret", webhook_id>>

\* create_webhook: the item it puts (url and created_at are not modelled)
webhook_item(webhook_id, api_key, events_list) ==
    [webhook_id |-> webhook_id, api_key |-> api_key, events |-> events_list,
     secret |-> SecretOf(webhook_id), is_active |-> 1]

\* list_webhooks: one query on the api-key-is-active index with
\* Limit = min(limit, 100); last_evaluated_key is returned, the pages the query
\* can answer are the sets of that many items of the key
list_webhooks(tbl, api_key, is_active, limit) ==
    LET items == {i \in WebhookIds : tbl[i] # NoWebhook /\ tbl[i].api_key = api_key
                                     /\ tbl[i].is_active = is_active}
        n == IF Cardinality(items) <= limit THEN Cardinality(items) ELSE limit
    IN {page \in SUBSET items : Cardinality(page) = n}

\* get_active_webhooks_for_event: '*' in events or event_type in events
event_type_matches(events_list, event_type) ==
    "*" \in events_list \/ event_type \in events_list

\* get_active_webhooks_for_event, after list_webhooks(api_key, is_active=True, limit=100)
get_active_webhooks_for_event(tbl, page, event_type) ==
    {i \in page : event_type_matches(tbl[i].events, event_type)}

\* the ids of a set in ascending order
RECURSIVE SetToSeq(_)
SetToSeq(S) ==
    IF S = {} THEN <<>>
    ELSE LET m == CHOOSE x \in S : \A y \in S : x <= y IN <<m>> \o SetToSeq(S \ {m})

\* the message send_webhook_message puts on the queue; codes is the history of
\* the responses to its POSTs, clean says that its webhook has stayed active
\* and readable since
new_message(webhook_id, event_id, active) ==
    [webhook_id |-> webhook_id, event_id |-> event_id, state |-> "visible",
     receive_count |-> 0, retry_count |-> 0, codes |-> <<>>,
     clean |-> active, skipped |-> FALSE, slept |-> FALSE, delays |-> <<>>]

\* an endpoint that lets the webhook error reach the outer handler
create_response_code_surfaced(webhook_error) == IF webhook_error THEN 500 ELSE 201

\* create_event_endpoint: an exception of the webhook block is logged, the
\* response is the 201 of the created event
create_response_code(webhook_error) == 201

\* outcomes of one store or queue call of the dispatch pipeline
WOutcomes(errors) == {"ok"} \cup (IF wfaults < MaxFaults THEN errors ELSE {})

WFault(outcome) == wfaults' = IF outcome = "ok" THEN wfaults ELSE wfaults + 1

\* messages one more POST /events can add to the queue when n webhooks exist
MessageReserve(n) == IF n <= WebhookLimit THEN n ELSE WebhookLimit

WebhookRows == Cardinality({i \in WebhookIds : webhooks[i] # NoWebhook})

\* ------------------------------------------------------------ store access
\* get_event: the row with this event_id, found through the event-id index
\* or the paginated consistent scan
get_event(tbl, event_id) ==
    IF event_id \in DOMAIN tbl THEN tbl[event_id] ELSE NoRow

\* a lookup that never finds the record
check_idempotency_key_miss(tbl, idempotency_key) == NoItem

\* check_idempotency_key: the event_id recorded for the key, None on a miss
check_idempotency_key(tbl, idempotency_key) == tbl[idempotency_key]

\* store_idempotency_key: True when the put_item went through, False on
\* ConditionalCheckFailedException
store_idempotency_key_reports(tbl, idempotency_key) == tbl[idempotency_key] = NoItem

\* a put_item without the ConditionExpression
store_idempotency_key_unconditional(tbl, idempotency_key, event_id) ==
    [tbl EXCEPT ![idempotency_key] = event_id]

\* store_idempotency_key: put_item under attribute_not_exists(idempotency_key)
store_idempotency_key(tbl, idempotency_key, event_id) ==
    IF tbl[idempotency_key] = NoItem
    THEN [tbl EXCEPT ![idempotency_key] = event_id]
    ELSE tbl

\* the event item create_event builds
new_event(event_id, payload, idempotency_key) ==
    [event_id |-> event_id, created_at |-> event_id, payload |-> payload,
     key |-> idempotency_key, status |-> "pending", acknowledged_at |-> "none"]

\* an update_item without any condition
ack_condition_none(row) == TRUE

\* an update_item without the status condition
ack_condition_exists(row) == row # NoRow

\* ConditionExpression of the acknowledge update_item, on the item under Key
ack_condition(row) == row # NoRow /\ row.status = "pending"

\* an update that sets the status alone
ack_update_status_only(row) == [row EXCEPT !.status = "acknowledged"]

\* UpdateExpression of the acknowledge update_item
ack_update(row) == [row EXCEPT !.status = "acknowledged", !.acknowledged_at = "ts"]

\* an endpoint that does not look the event up again
ack_failure_code_conflict(event) == 409

\* acknowledge_event_endpoint, acknowledge_event returned None
ack_failure_code(event) == IF event = NoRow THEN 404 ELSE 409

\* an endpoint that reports a failed delete_event
delete_response_code_checked(deleted) == IF deleted THEN 200 ELSE 500

\* delete_event_endpoint: the result of delete_event is not looked at
delete_response_code(deleted) == 200

\* ------------------------------------------------------------ request state
Idle == [op |-> "none", pc |-> "idle", id |-> MissingId, key |-> NoKey,
         payload |-> "p1", created_at |-> 0, code |-> 0, event |-> NoRow,
         solo |-> TRUE, pre |-> NoRow,
         batch |-> <<>>, i |-> 0, acc |-> <<>>, succ |-> {}, failed |-> {},
         webhooks |-> <<>>, lookup |-> "none", matching |-> {}, sent |-> <<>>,
         send_errors |-> 0]

\* "done": the response of the worker's last request, kept until it takes the next
InFlight(w) == call[w].pc \notin {"idle", "done"}

\* a request starts: it runs alone only while no other request is in flight
Begin(w, rec) ==
    /\ ~InFlight(w)
    /\ ncalls < MaxCalls
    /\ ncalls' = ncalls + 1
    /\ call' = [v \in Workers |->
                  IF v = w THEN [rec EXCEPT !.solo = \A u \in Workers \ {w} : ~InFlight(u)]
                  ELSE IF InFlight(v) THEN [call[v] EXCEPT !.solo = FALSE]
                  ELSE call[v]]

Finish(w, code, event) ==
    call' = [call EXCEPT ![w].pc = "done", ![w].code = code, ![w].event = event]

Goto(w, pc) == call' = [call EXCEPT ![w].pc = pc]

\* create_event returns to create_event_endpoint, which goes on to the webhook
\* block; while the webhooks table holds no row the block's query finds
\* nothing to send and the 201 response follows in the same step
Return(w, event) ==
    IF WebhookRows = 0
    THEN call' = [call EXCEPT ![w].pc = "done", ![w].event = event,
                              ![w].code = create_response_code(FALSE)]
    ELSE call' = [call EXCEPT ![w].pc = "get_active_webhooks", ![w].event = event]

\* Create calls in flight
CreatesInFlight == Cardinality({w \in Workers : call[w].op = "create" /\ InFlight(w)})

KnownIds == (1..(next_uuid - 1)) \cup {MissingId}

\* Create calls not yet past their put_item
PendingPuts ==
    Cardinality({w \in Workers : call[w].op = "create" /\
                 call[w].pc \in {"check_idempotency_key", "get_existing", "put_item"}})

\* sequences of 1..MaxBatch elements of S
Batches(S) == UNION {[1..n -> S] : n \in 1..MaxBatch}

\* keys carried by the items of a bulk create
BatchKeys(batch) == {batch[j].key : j \in DOMAIN batch} \ {NoKey}

\* Create calls (single or bulk) in flight that carry key k
CreatingKey(u, k) ==
    /\ InFlight(u)
    /\ \/ call[u].op = "create" /\ call[u].key = k
       \/ call[u].op = "bulk_create" /\ k \in BatchKeys(call[u].batch)

\* ---------------------------------------------------------------- Create
\* POST /events -> create_event(source, event_type, payload, metadata, key)
PostEvent(w, k, p) ==
    /\ next_uuid + PendingPuts <= MaxEvents
    /\ Len(queue) + MessageReserve(WebhookRows) * (CreatesInFlight + 1) <= MaxMessages
    /\ Begin(w, [Idle EXCEPT !.op = "create", !.key = k, !.payload = p,
                     !.pc = IF k # NoKey THEN "check_idempotency_key" ELSE "put_item"])
    /\ h_racy' = IF k # NoKey /\ \E u \in Workers \ {w} : CreatingKey(u, k)
                 THEN [h_racy EXCEPT ![k] = TRUE] ELSE h_racy
    /\ UNCHANGED <<kvars, svars, avars, ivars, rvars, wvars, events, idempotency, next_uuid, h_returned, h_removed, h_updates>>

StartCreate(w) == \E k \in IdemKeys \cup {NoKey}, p \in Payloads : PostEvent(w, k, p)

\* create_event: existing_event_id = check_idempotency_key(idempotency_key)
create_event_check(w) ==
    /\ call[w].op = "create" /\ call[w].pc = "check_idempotency_key"
    /\ LET existing == check_idempotency_key(idempotency, call[w].key) IN
        IF existing # NoItem
        THEN call' = [call EXCEPT ![w].pc = "get_existing", ![w].id = existing]
        ELSE Goto(w, "put_item")
    /\ UNCHANGED <<kvars, svars, avars, ivars, rvars, wvars, events, idempotency, next_uuid, ncalls,
                   h_returned, h_racy, h_removed, h_updates>>

\* create_event: existing_event = get_event(existing_event_id); return it if found
create_event_get(w) ==
    /\ call[w].op = "create" /\ call[w].pc = "get_existing"
    /\ LET existing == get_event(events, call[w].id) IN
        IF existing # NoRow
        THEN /\ Return(w, existing)
             /\ h_returned' = [h_returned EXCEPT ![call[w].key] = @ \cup {existing.event_id}]
        ELSE /\ Goto(w, "put_item")
             /\ UNCHANGED h_returned
    /\ UNCHANGED <<kvars, svars, avars, ivars, rvars, wvars, events, idempotency, next_uuid, ncalls, h_racy, h_removed, h_updates>>

\* create_event: event_id = generate_uuid(); table.put_item(Item=event)
create_event_put(w) ==
    /\ call[w].op = "create" /\ call[w].pc = "put_item"
    /\ next_uuid <= MaxEvents
    /\ LET event == new_event(next_uuid, call[w].payload, call[w].key) IN
        /\ events' = [events EXCEPT ![next_uuid] = event]
        /\ next_uuid' = next_uuid + 1
        /\ IF call[w].key # NoKey
           THEN /\ call' = [call EXCEPT ![w].pc = "store_idempotency_key", ![w].id = next_uuid,
                                        ![w].event = event]
                /\ UNCHANGED h_returned
           ELSE /\ Return(w, event)
                /\ UNCHANGED h_returned
    /\ UNCHANGED <<kvars, svars, avars, ivars, rvars, wvars, idempotency, ncalls, h_racy, h_removed, h_updates>>

\* a create_event that answers with the event the ledger records
create_event_returns_recorded(event, recorded) ==
    IF recorded # NoRow THEN recorded ELSE event

\* create_event: the result of store_idempotency_key is dropped; return event
create_event_returns(event, recorded) == event

\* create_event: store_idempotency_key(idempotency_key, event_id); return event
create_event_store(w) ==
    /\ call[w].op = "create" /\ call[w].pc = "store_idempotency_key"
    /\ idempotency' = store_idempotency_key(idempotency, call[w].key, call[w].id)
    /\ LET event == create_event_returns(call[w].event,
                                         get_event(events, idempotency'[call[w].key]))
       IN /\ Return(w, event)
          /\ h_returned' = [h_returned EXCEPT ![call[w].key] = @ \cup {event.event_id}]
    /\ UNCHANGED <<kvars, svars, avars, ivars, rvars, wvars, events, next_uuid, ncalls, h_racy, h_removed, h_updates>>

\* create_event: store_idempotency_key's put_item raises a ClientError other
\* than ConditionalCheckFailedException; it is re-raised through create_event
\* and create_event_endpoint answers 500 (InternalError)
create_event_store_error(w) ==
    /\ call[w].op = "create" /\ call[w].pc = "store_idempotency_key"
    /\ Finish(w, 500, NoRow)
    /\ UNCHANGED <<kvars, svars, avars, ivars, rvars, wvars, events, idempotency, next_uuid, ncalls,
                   h_returned, h_racy, h_removed, h_updates>>

\* history: the webhooks that are active, owned by api_key and subscribed to
\* event_type or "*" at this moment
ShouldReceive(api_key, event_type) ==
    {i \in WebhookIds : /\ webhooks[i] # NoWebhook
                        /\ webhooks[i].is_active = 1
                        /\ webhooks[i].api_key = api_key
                        /\ (event_type \in webhooks[i].events \/ "*" \in webhooks[i].events)}

\* create_event_endpoint: webhooks = get_active_webhooks_for_event(api_key, event_type);
\* an exception of the query is caught by the webhook block's except
create_event_webhooks(w) ==
    /\ call[w].op = "create" /\ call[w].pc = "get_active_webhooks"
    /\ \E outcome \in WOutcomes({"ClientError"}) :
        /\ WFault(outcome)
        /\ IF outcome # "ok"
           THEN call' = [call EXCEPT ![w].pc = "done", ![w].lookup = outcome,
                                     ![w].matching = ShouldReceive(ApiKey, EventType),
                                     ![w].code = create_response_code(TRUE)]
           ELSE \E page \in list_webhooks(webhooks, ApiKey, 1, WebhookLimit) :
                LET matching == get_active_webhooks_for_event(webhooks, page, EventType)
                    truth == ShouldReceive(ApiKey, EventType)
                IN IF matching = {}
                   THEN call' = [call EXCEPT ![w].pc = "done", ![w].lookup = outcome,
                                             ![w].matching = truth,
                                             ![w].code = create_response_code(FALSE)]
                   ELSE call' = [call EXCEPT ![w].pc = "send_webhook_message",
                                             ![w].lookup = outcome, ![w].matching = truth,
                                             ![w].webhooks = SetToSeq(matching)]
    /\ UNCHANGED <<kvars, svars, avars, ivars, rvars, events, idempotency, next_uuid, ncalls,
                   h_returned, h_racy, h_removed, h_updates,
                   webhooks, next_webhook, nwcalls, queue, h_stopped>>

\* create_event_endpoint, for webhook in webhooks: send_webhook_message(webhook_id,
\* webhook_event_data), which returns False when send_message raises
create_event_send(w) ==
    /\ call[w].op = "create" /\ call[w].pc = "send_webhook_message"
    /\ \E outcome \in WOutcomes({"ClientError"}) :
        LET c == call[w]
            webhook_id == Head(c.webhooks)
            rest == Tail(c.webhooks)
            sent == IF outcome = "ok" THEN Append(c.sent, webhook_id) ELSE c.sent
            errors == IF outcome = "ok" THEN c.send_errors ELSE c.send_errors + 1
        IN /\ WFault(outcome)
           /\ queue' = IF outcome = "ok"
                       THEN Append(queue, new_message(webhook_id, c.event.event_id,
                                       webhooks[webhook_id] # NoWebhook /\
                                       webhooks[webhook_id].is_active = 1))
                       ELSE queue
           /\ IF rest = <<>>
              THEN call' = [call EXCEPT ![w].pc = "done", ![w].webhooks = rest,
                                        ![w].sent = sent, ![w].send_errors = errors,
                                        ![w].code = create_response_code(FALSE)]
              ELSE call' = [call EXCEPT ![w].webhooks = rest, ![w].sent = sent,
                                        ![w].send_errors = errors]
    /\ UNCHANGED <<kvars, svars, avars, ivars, rvars, events, idempotency, next_uuid, ncalls,
                   h_returned, h_racy, h_removed, h_updates,
                   webhooks, next_webhook, nwcalls, h_stopped>>

\* ------------------------------------------------------------ Acknowledge
\* POST /events/{id}/ack -> acknowledge_event_endpoint
StartAck(w) ==
    \E id \in KnownIds :
        /\ Begin(w, [Idle EXCEPT !.op = "ack", !.id = id, !.pc = "ack_get_event",
                         !.pre = get_event(events, id)])
        /\ UNCHANGED <<kvars, svars, avars, ivars, rvars, wvars, events, idempotency, next_uuid,
                       h_returned, h_racy, h_removed, h_updates>>

\* acknowledge_event: event = get_event(event_id); None if not found
acknowledge_event_get(w) ==
    /\ call[w].op = "ack" /\ call[w].pc = "ack_get_event"
    /\ LET event == get_event(events, call[w].id) IN
        IF event = NoRow
        THEN Goto(w, "ack_recheck")
        ELSE call' = [call EXCEPT ![w].pc = "update_item", ![w].created_at = event.created_at]
    /\ UNCHANGED <<kvars, svars, avars, ivars, rvars, wvars, events, idempotency, next_uuid, ncalls,
                   h_returned, h_racy, h_removed, h_updates>>

\* acknowledge_event: conditional update_item on Key (event_id, created_at)
acknowledge_event_update(w) ==
    /\ call[w].op = "ack" /\ call[w].pc = "update_item"
    /\ LET id == call[w].id
           row == IF events[id] # NoRow /\ events[id].created_at = call[w].created_at
                  THEN events[id] ELSE NoRow
       IN IF ack_condition(row)
          THEN /\ events' = [events EXCEPT ![id] = ack_update(row)]
               /\ h_updates' = [h_updates EXCEPT ![id] = @ + 1]
               /\ Finish(w, 200, ack_update(row))
          ELSE /\ Goto(w, "ack_recheck")
               /\ UNCHANGED <<events, h_updates>>
    /\ UNCHANGED <<kvars, svars, avars, ivars, rvars, wvars, idempotency, next_uuid, ncalls, h_returned, h_racy, h_removed>>

\* acknowledge_event_endpoint: updated_event is None -> get_event again, 404 or 409
acknowledge_event_endpoint(w) ==
    /\ call[w].op = "ack" /\ call[w].pc = "ack_recheck"
    /\ Finish(w, ack_failure_code(get_event(events, call[w].id)), NoRow)
    /\ UNCHANGED <<kvars, svars, avars, ivars, rvars, wvars, events, idempotency, next_uuid, ncalls,
                   h_returned, h_racy, h_removed, h_updates>>

\* ----------------------------------------------------------------- Delete
\* DELETE /events/{id} -> delete_event_endpoint
StartDelete(w) ==
    \E id \in KnownIds :
        /\ Begin(w, [Idle EXCEPT !.op = "delete", !.id = id, !.pc = "delete_get_event",
                         !.pre = get_event(events, id)])
        /\ UNCHANGED <<kvars, svars, avars, ivars, rvars, wvars, events, idempotency, next_uuid,
                       h_returned, h_racy, h_removed, h_updates>>

\* delete_event: event = get_event(event_id); True when not found
delete_event_get(w) ==
    /\ call[w].op = "delete" /\ call[w].pc = "delete_get_event"
    /\ LET event == get_event(events, call[w].id) IN
        IF event = NoRow
        THEN Finish(w, delete_response_code(TRUE), NoRow)
        ELSE call' = [call EXCEPT ![w].pc = "delete_item", ![w].created_at = event.created_at]
    /\ UNCHANGED <<kvars, svars, avars, ivars, rvars, wvars, events, idempotency, next_uuid, ncalls,
                   h_returned, h_racy, h_removed, h_updates>>

\* delete_event: table.delete_item(Key); False when the store raises ClientError
delete_event_delete(w) ==
    /\ call[w].op = "delete" /\ call[w].pc = "delete_item"
    /\ LET id == call[w].id IN
       \E client_error \in BOOLEAN :
        IF client_error
        THEN /\ Finish(w, delete_response_code(FALSE), NoRow)
             /\ UNCHANGED <<events, h_removed>>
        ELSE /\ events' = [events EXCEPT ![id] = NoRow]
             /\ h_removed' = IF events[id] # NoRow
                             THEN h_removed \cup {<<id, events[id].key>>} ELSE h_removed
             /\ Finish(w, delete_response_code(TRUE), NoRow)
    /\ UNCHANGED <<kvars, svars, avars, ivars, rvars, wvars, idempotency, next_uuid, ncalls, h_returned, h_racy, h_updates>>

\* ------------------------------------------------------------ Bulk create
\* POST /events/bulk -> bulk_create_events_endpoint: every item gets its
\* event_id from generate_uuid before bulk_create_events is called
StartBulkCreate(w) ==
    \E items \in Batches([key : IdemKeys \cup {NoKey}, payload : BulkPayloads]) :
        /\ next_uuid + PendingPuts + Len(items) - 1 <= MaxEvents
        /\ Begin(w, [Idle EXCEPT !.op = "bulk_create", !.pc = "bulk_create_check", !.i = 1,
                         !.batch = [j \in DOMAIN items |->
                                      [key |-> items[j].key, payload |-> items[j].payload,
                                       event_id |-> next_uuid + j - 1]]])
        /\ next_uuid' = next_uuid + Len(items)
        /\ h_racy' = [k \in IdemKeys |->
                        h_racy[k] \/ (k \in {items[j].key : j \in DOMAIN items} /\
                                      ((\E u \in Workers \ {w} : CreatingKey(u, k)) \/
                                       Cardinality({j \in DOMAIN items : items[j].key = k}) > 1))]
        /\ UNCHANGED <<kvars, svars, avars, ivars, rvars, wvars, events, idempotency, h_returned, h_removed, h_updates>>

\* after item i of the idempotency loop: next item, batch write, or nothing to write
BulkCreateChecked(w, acc, succ) ==
    LET c == call[w] IN
    IF c.i < Len(c.batch)
    THEN call' = [call EXCEPT ![w].pc = "bulk_create_check", ![w].i = c.i + 1,
                              ![w].acc = acc, ![w].succ = succ]
    ELSE IF acc = <<>>
    THEN call' = [call EXCEPT ![w].pc = "done", ![w].code = 201,
                              ![w].acc = acc, ![w].succ = succ]
    ELSE call' = [call EXCEPT ![w].pc = "batch_write_item", ![w].acc = acc, ![w].succ = succ]

\* bulk_create_events: check_idempotency_key for item i
bulk_create_check(w) ==
    /\ call[w].op = "bulk_create" /\ call[w].pc = "bulk_create_check"
    /\ LET c == call[w]
           item == c.batch[c.i]
           existing == IF item.key # NoKey
                       THEN check_idempotency_key(idempotency, item.key) ELSE NoItem
       IN IF existing # NoItem
          THEN call' = [call EXCEPT ![w].pc = "bulk_create_get", ![w].id = existing]
          ELSE BulkCreateChecked(w, Append(c.acc, c.i), c.succ)
    /\ UNCHANGED <<kvars, svars, avars, ivars, rvars, wvars, events, idempotency, next_uuid, ncalls,
                   h_returned, h_racy, h_removed, h_updates>>

\* bulk_create_events: get_event(existing_event_id) for item i
bulk_create_get(w) ==
    /\ call[w].op = "bulk_create" /\ call[w].pc = "bulk_create_get"
    /\ LET c == call[w]
           existing == get_event(events, c.id)
       IN IF existing # NoRow
          THEN /\ BulkCreateChecked(w, c.acc, c.succ \cup {existing.event_id})
               /\ h_returned' = [h_returned EXCEPT ![c.batch[c.i].key] = @ \cup {existing.event_id}]
          ELSE /\ BulkCreateChecked(w, Append(c.acc, c.i), c.succ)
               /\ UNCHANGED h_returned
    /\ UNCHANGED <<kvars, svars, avars, ivars, rvars, wvars, events, idempotency, next_uuid, ncalls, h_racy, h_removed, h_updates>>

\* bulk_create_events: client.batch_write_item puts every event to create;
\* a ClientError marks all of them failed
bulk_create_write(w) ==
    /\ call[w].op = "bulk_create" /\ call[w].pc = "batch_write_item"
    /\ LET c == call[w]
           ids == {c.batch[c.acc[j]].event_id : j \in DOMAIN c.acc}
           item_of(e) == c.batch[CHOOSE j \in DOMAIN c.batch : c.batch[j].event_id = e]
       IN \E client_error \in BOOLEAN :
          IF client_error
          THEN /\ call' = [call EXCEPT ![w].pc = "done", ![w].code = 201,
                              ![w].failed = {<<c.acc[j], "INTERNAL_ERROR">> : j \in DOMAIN c.acc}]
               /\ UNCHANGED events
          ELSE /\ events' = [e \in EventIds |->
                               IF e \in ids
                               THEN new_event(e, item_of(e).payload, item_of(e).key)
                               ELSE events[e]]
               /\ call' = [call EXCEPT ![w].pc = "bulk_create_store", ![w].i = 1]
    /\ UNCHANGED <<kvars, svars, avars, ivars, rvars, wvars, idempotency, next_uuid, ncalls, h_returned, h_racy, h_removed, h_updates>>

\* bulk_create_events: successful.append(event); store_idempotency_key for it
bulk_create_store(w) ==
    /\ call[w].op = "bulk_create" /\ call[w].pc = "bulk_create_store"
    /\ LET c == call[w]
           item == c.batch[c.acc[c.i]]
       IN /\ idempotency' = IF item.key # NoKey
                            THEN store_idempotency_key(idempotency, item.key, item.event_id)
                            ELSE idempotency
          /\ h_returned' = IF item.key # NoKey
                           THEN [h_returned EXCEPT ![item.key] = @ \cup {item.event_id}]
                           ELSE h_returned
          /\ IF c.i < Len(c.acc)
             THEN call' = [call EXCEPT ![w].i = c.i + 1, ![w].succ = @ \cup {item.event_id}]
             ELSE call' = [call EXCEPT ![w].pc = "done", ![w].code = 201,
                                       ![w].succ = @ \cup {item.event_id}]
    /\ UNCHANGED <<kvars, svars, avars, ivars, rvars, wvars, events, next_uuid, ncalls, h_racy, h_removed, h_updates>>

\* -------------------------------------------------------- Bulk acknowledge
\* POST /events/bulk/ack -> bulk_acknowledge_events(event_ids)
StartBulkAck(w) ==
    \E ids \in Batches(KnownIds) :
        /\ Begin(w, [Idle EXCEPT !.op = "bulk_ack", !.pc = "bulk_ack_lookup", !.i = 1,
                         !.batch = ids])
        /\ UNCHANGED <<kvars, svars, avars, ivars, rvars, wvars, events, idempotency, next_uuid,
                       h_returned, h_racy, h_removed, h_updates>>

\* bulk_acknowledge_events, first loop: get_event for event_ids[i]
bulk_acknowledge_lookup(w) ==
    /\ call[w].op = "bulk_ack" /\ call[w].pc = "bulk_ack_lookup"
    /\ LET c == call[w]
           found == get_event(events, c.batch[c.i]) # NoRow
           acc == IF found THEN Append(c.acc, c.i) ELSE c.acc
           failed == IF found THEN c.failed ELSE c.failed \cup {<<c.i, "NOT_FOUND">>}
       IN IF c.i < Len(c.batch)
          THEN call' = [call EXCEPT ![w].i = c.i + 1, ![w].acc = acc, ![w].failed = failed]
          ELSE IF acc = <<>>
          THEN call' = [call EXCEPT ![w].pc = "done", ![w].code = 200,
                                    ![w].acc = acc, ![w].failed = failed]
          ELSE call' = [call EXCEPT ![w].pc = "bulk_ack_get", ![w].i = 1,
                                    ![w].acc = acc, ![w].failed = failed]
    /\ UNCHANGED <<kvars, svars, avars, ivars, rvars, wvars, events, idempotency, next_uuid, ncalls,
                   h_returned, h_racy, h_removed, h_updates>>

\* after events_to_ack[i] of the second loop: next event or the response
BulkAckNext(w, succ, failed) ==
    LET c == call[w] IN
    IF c.i < Len(c.acc)
    THEN call' = [call EXCEPT ![w].pc = "bulk_ack_get", ![w].i = c.i + 1,
                              ![w].succ = succ, ![w].failed = failed]
    ELSE call' = [call EXCEPT ![w].pc = "done", ![w].code = 200,
                              ![w].succ = succ, ![w].failed = failed]

\* bulk_acknowledge_events, second loop: acknowledge_event's get_event
bulk_acknowledge_get(w) ==
    /\ call[w].op = "bulk_ack" /\ call[w].pc = "bulk_ack_get"
    /\ LET c == call[w]
           idx == c.acc[c.i]
           event == get_event(events, c.batch[idx])
       IN IF event = NoRow
          THEN BulkAckNext(w, c.succ, c.failed \cup {<<idx, "CONFLICT">>})
          ELSE call' = [call EXCEPT ![w].pc = "bulk_ack_update", ![w].id = c.batch[idx],
                                    ![w].created_at = event.created_at]
    /\ UNCHANGED <<kvars, svars, avars, ivars, rvars, wvars, events, idempotency, next_uuid, ncalls,
                   h_returned, h_racy, h_removed, h_updates>>

\* bulk_acknowledge_events, second loop: acknowledge_event's conditional update_item
bulk_acknowledge_update(w) ==
    /\ call[w].op = "bulk_ack" /\ call[w].pc = "bulk_ack_update"
    /\ LET c == call[w]
           id == c.id
           row == IF events[id] # NoRow /\ events[id].created_at = c.created_at
                  THEN events[id] ELSE NoRow
       IN IF ack_condition(row)
          THEN /\ events' = [events EXCEPT ![id] = ack_update(row)]
               /\ h_updates' = [h_updates EXCEPT ![id] = @ + 1]
               /\ BulkAckNext(w, c.succ \cup {id}, c.failed)
          ELSE /\ BulkAckNext(w, c.succ, c.failed \cup {<<c.acc[c.i], "CONFLICT">>})
               /\ UNCHANGED <<events, h_updates>>
    /\ UNCHANGED <<kvars, svars, avars, ivars, rvars, wvars, idempotency, next_uuid, ncalls, h_returned, h_racy, h_removed>>

\* ------------------------------------------------------- webhook requests
\* create_webhook: put_item of a new webhook, is_active = 1
create_webhook(api_key, events_list) ==
    /\ next_webhook <= MaxWebhooks
    /\ nwcalls < MaxWebhookCalls
    /\ Len(queue) + MessageReserve(WebhookRows + 1) * CreatesInFlight <= MaxMessages
    /\ webhooks' = [webhooks EXCEPT ![next_webhook] =
                      webhook_item(next_webhook, api_key, events_list)]
    /\ next_webhook' = next_webhook + 1
    /\ nwcalls' = nwcalls + 1
    /\ UNCHANGED <<kvars, svars, avars, ivars, evars, rvars, queue, wfaults, h_stopped>>

\* messages of a webhook that are still on the queue, after the webhook changed
Touched(webhook_id) ==
    [m \in DOMAIN queue |->
        IF queue[m].webhook_id = webhook_id /\ queue[m].state \notin {"deleted", "dlq"}
        THEN [queue[m] EXCEPT !.clean = FALSE] ELSE queue[m]]

\* update_webhook(webhook_id, is_active=...): SET is_active = 1 or 0 on a
\* webhook the endpoint has found
update_webhook(webhook_id, is_active) ==
    /\ webhooks[webhook_id] # NoWebhook
    /\ webhooks[webhook_id].is_active # is_active
    /\ nwcalls < MaxWebhookCalls
    /\ webhooks' = [webhooks EXCEPT ![webhook_id].is_active = is_active]
    /\ nwcalls' = nwcalls + 1
    /\ queue' = IF is_active = 0 THEN Touched(webhook_id) ELSE queue
    /\ h_stopped' = IF is_active = 0 THEN h_stopped \cup {webhook_id} ELSE h_stopped
    /\ UNCHANGED <<kvars, svars, avars, ivars, evars, rvars, next_webhook, wfaults>>

\* delete_webhook: delete_item of a webhook the endpoint has found
delete_webhook(webhook_id) ==
    /\ webhooks[webhook_id] # NoWebhook
    /\ nwcalls < MaxWebhookCalls
    /\ webhooks' = [webhooks EXCEPT ![webhook_id] = NoWebhook]
    /\ nwcalls' = nwcalls + 1
    /\ queue' = Touched(webhook_id)
    /\ h_stopped' = h_stopped \cup {webhook_id}
    /\ UNCHANGED <<kvars, svars, avars, ivars, evars, rvars, next_webhook, wfaults>>

\* ------------------------------------------------------- delivery worker
MaxReceiveCount == 3     \* receives after which the queue dead-letters a failed message
RequestsTimeout == -1    \* requests.post raised Timeout or another exception
Responses == {200, 404, 503, RequestsTimeout}

\* the queue after the handler's answer for a message: not among the
\* batchItemFailures -> deleted; among them -> visible again, or moved to the
\* dead-letter queue once it has been received MaxReceiveCount times
queue_disposition(reported, receive_count) ==
    IF ~reported THEN "deleted"
    ELSE IF receive_count < MaxReceiveCount THEN "visible" ELSE "dlq"

\* deliver_webhook_sync: True for a 2xx response; False for 4xx, for 5xx, for a
\* timeout and for any other exception
deliver_webhook_sync(response) ==
    IF response = RequestsTimeout THEN FALSE
    ELSE IF 200 <= response /\ response < 300 THEN TRUE
    ELSE IF 400 <= response /\ response < 500 THEN FALSE
    ELSE FALSE

\* a handler that drops the message when the retries are used up
handler_reports_failure_below_max(success, retry_count) == ~success /\ retry_count < 2

\* handler: a failed delivery is appended to batch_item_failures, both when
\* retry_count < 2 and when the retries are used up
handler_reports_failure(success, retry_count) ==
    IF ~success
    THEN IF retry_count < 2 THEN TRUE ELSE TRUE
    ELSE FALSE

\* a handler that delivers to every webhook it can read
handler_skips_never(webhook) == FALSE

\* a handler that skips every webhook
handler_skips_always(webhook) == TRUE

\* handler: is_active = webhook.get('is_active', 0); not is_active -> skip
handler_skips(webhook) == webhook.is_active = 0

\* the queue hands a visible message to the handler; ApproximateReceiveCount
\* counts this receive
Receive(m) ==
    /\ queue[m].state = "visible"
    /\ queue' = [queue EXCEPT ![m].state = "received", ![m].receive_count = @ + 1]
    /\ UNCHANGED <<kvars, svars, avars, ivars, evars, rvars, webhooks, next_webhook, nwcalls, wfaults, h_stopped>>

\* handler: webhook = get_webhook_details(webhook_id), None when the webhook is
\* gone or get_item raises ClientError; is_active; retry_count from the record
handler_get_webhook(m) ==
    /\ queue[m].state = "received"
    /\ \E outcome \in WOutcomes({"ClientError"}) :
        LET msg == queue[m]
            webhook == IF outcome = "ok" THEN webhooks[msg.webhook_id] ELSE NoWebhook
        IN /\ WFault(outcome)
           /\ IF webhook = NoWebhook
              THEN queue' = [queue EXCEPT ![m].state = queue_disposition(TRUE, msg.receive_count),
                                          ![m].clean = FALSE]
              ELSE IF handler_skips(webhook)
              THEN queue' = [queue EXCEPT ![m].state = queue_disposition(FALSE, msg.receive_count),
                                          ![m].skipped = TRUE]
              ELSE queue' = [queue EXCEPT ![m].state = "deliver",
                                          ![m].retry_count = msg.receive_count - 1,
                                          ![m].slept = FALSE]
    /\ UNCHANGED <<kvars, svars, avars, ivars, evars, rvars, webhooks, next_webhook, nwcalls, h_stopped>>

\* a schedule that doubles from the first attempt on
backoff_delay_doubling(retry_count) == 2 ^ retry_count

\* deliver_webhook_sync: if retry_count > 0: delay = 2 ** (retry_count - 1)
backoff_delay(retry_count) == IF retry_count > 0 THEN 2 ^ (retry_count - 1) ELSE 0

\* deliver_webhook_sync: time.sleep(delay) before the POST; delays is the
\* history of the attempts' retry_count and the seconds slept
handler_backoff(m) ==
    /\ queue[m].state = "deliver"
    /\ ~queue[m].slept
    /\ queue' = [queue EXCEPT ![m].slept = TRUE,
                              ![m].delays = Append(@, [retry_count |-> queue[m].retry_count,
                                                       delay |-> backoff_delay(queue[m].retry_count)])]
    /\ UNCHANGED <<kvars, svars, avars, ivars, evars, rvars, webhooks, next_webhook, nwcalls, wfaults, h_stopped>>

\* handler: success = deliver_webhook_sync(webhook, event_data, retry_count), the
\* POST to the subscriber; the message is reported as failed or not
handler_deliver(m) ==
    /\ queue[m].state = "deliver"
    /\ queue[m].slept
    /\ \E response \in Responses :
        LET msg == queue[m]
            success == deliver_webhook_sync(response)
            reported == handler_reports_failure(success, msg.retry_count)
        IN queue' = [queue EXCEPT ![m].state = queue_disposition(reported, msg.receive_count),
                                  ![m].codes = Append(@, response)]
    /\ UNCHANGED <<kvars, svars, avars, ivars, evars, rvars, webhooks, next_webhook, nwcalls, wfaults, h_stopped>>

\* ------------------------------------------------------------ rate limiter
WindowStarts == {t \in 0..MaxTime : t % WindowSeconds = 0}
NoRecord == -1           \* get_item response without 'Item' (rate limits table)

Max(a, b) == IF a >= b THEN a ELSE b
Min(a, b) == IF a <= b THEN a ELSE b

\* window_start = (current_time // window_seconds) * window_seconds
window_of(current_time) == (current_time \div WindowSeconds) * WindowSeconds

\* check_rate_limit, after get_item returned: (allowed, remaining)
check_result(item, limit) ==
    IF item # NoRecord
    THEN [allowed |-> item < limit, remaining |-> Max(0, limit - item)]
    ELSE [allowed |-> TRUE, remaining |-> limit]

\* a check that fails closed
check_fail_closed(limit) == [allowed |-> FALSE, remaining |-> 0]

\* check_rate_limit, get_item raised ClientError: fail open
check_fail_open(limit) == [allowed |-> TRUE, remaining |-> limit]

\* an update_item without the limit condition
increment_condition_exists(item, limit) == item # NoRecord

\* ConditionExpression 'request_count < :limit' of increment_rate_limit's update_item;
\* the store evaluates a comparison on an item that does not exist to false
increment_condition(item, limit) == item # NoRecord /\ item < limit

\* rate_limit_middleware, increment_rate_limit raised ClientError with this Error.Code
increment_error_code(error_code) ==
    IF error_code = "ConditionalCheckFailedException" THEN 429 ELSE 200

RIdle == [pc |-> "idle", current_time |-> 0, window_start |-> 0, reset_timestamp |-> 0,
          allowed |-> FALSE, remaining |-> 0, check_remaining |-> 0,
          check |-> "none", inc |-> "none", code |-> 0, headers |-> FALSE,
          clean |-> TRUE, pre |-> NoRecord, prev_full |-> FALSE]

RInFlight(w) == req[w].pc \notin {"idle", "done"}

\* outcomes of one store call: the call works, or (while errors may still be
\* injected) it raises one of the given errors
Outcomes(errors) == {"ok"} \cup (IF nfaults < MaxFaults THEN errors ELSE {})

Fault(outcome) ==
    /\ nfaults' = IF outcome = "ok" THEN nfaults ELSE nfaults + 1
    /\ h_seq' = (h_seq /\ outcome = "ok")

\* the middleware answers: 429, or the response of call_next
Answer(w, code, headers, remaining, counted, fields) ==
    LET ws == req[w].window_start IN
    /\ req' = [req EXCEPT ![w] = [fields EXCEPT !.pc = "done", !.code = code,
                                               !.headers = headers, !.remaining = remaining]]
    /\ h_total' = [h_total EXCEPT ![ws] = @ + 1]
    /\ h_admitted' = [h_admitted EXCEPT ![ws] = @ + (IF code = 200 THEN 1 ELSE 0)]
    /\ h_counted' = [h_counted EXCEPT ![ws] = @ + (IF counted THEN 1 ELSE 0)]

\* rate_limit_middleware: a request with an X-API-Key arrives; current_time and
\* window_start are computed before check_rate_limit is called
RateStart(w) ==
    /\ ~RInFlight(w)
    /\ nreqs < MaxRequests
    /\ nreqs' = nreqs + 1
    /\ LET ws == window_of(now)
           alone == \A u \in Workers \ {w} : ~RInFlight(u)
       IN /\ req' = [v \in Workers |->
                       IF v = w
                       THEN [RIdle EXCEPT !.pc = "check_rate_limit", !.current_time = now,
                                          !.window_start = ws, !.clean = alone,
                                          !.pre = rate_limits[ws],
                                          !.prev_full = (ws >= WindowSeconds /\
                                              rate_limits[ws - WindowSeconds] = RateLimit)]
                       ELSE IF RInFlight(v) THEN [req[v] EXCEPT !.clean = FALSE]
                       ELSE req[v]]
          /\ h_seq' = (h_seq /\ alone)
    /\ UNCHANGED <<kvars, svars, avars, ivars, evars, wvars, now, rate_limits, nfaults, h_total, h_admitted, h_counted, h_puts>>

\* check_rate_limit(api_key, rate_limit, window_seconds), which reads the clock again
check_rate_limit(w) ==
    /\ req[w].pc = "check_rate_limit"
    /\ \E outcome \in Outcomes({"ClientError", "Exception"}) :
        LET r == req[w]
            window_start == window_of(now)
            reset_timestamp == window_start + WindowSeconds
            result == IF outcome = "ok"
                      THEN check_result(rate_limits[window_start], RateLimit)
                      ELSE check_fail_open(RateLimit)
            checked == [r EXCEPT !.check = outcome, !.reset_timestamp = reset_timestamp,
                                 !.allowed = result.allowed, !.remaining = result.remaining,
                                 !.check_remaining = result.remaining,
                                 !.clean = r.clean /\ outcome = "ok"]
        IN /\ Fault(outcome)
           /\ IF outcome = "Exception"
              THEN \* not a ClientError: caught by the middleware's except Exception
                   Answer(w, 200, FALSE, 0, FALSE,
                          [r EXCEPT !.check = outcome, !.clean = FALSE])
              ELSE IF ~result.allowed
              THEN Answer(w, 429, FALSE, result.remaining, FALSE, checked)
              ELSE /\ req' = [req EXCEPT ![w] = [checked EXCEPT !.pc = "increment_rate_limit"]]
                   /\ UNCHANGED <<h_total, h_admitted, h_counted>>
    /\ UNCHANGED <<kvars, svars, avars, ivars, evars, wvars, now, rate_limits, nreqs, h_puts>>

\* increment_rate_limit(api_key, window_start, rate_limit): conditional update_item
increment_rate_limit(w) ==
    /\ req[w].pc = "increment_rate_limit"
    /\ \E outcome \in Outcomes({"ResourceNotFoundException", "ClientError", "Exception"}) :
        LET r == req[w]
            ws == r.window_start
            item == rate_limits[ws]
        IN /\ Fault(outcome)
           /\ IF outcome = "ok" /\ increment_condition(item, RateLimit)
              THEN /\ rate_limits' = [rate_limits EXCEPT ![ws] = item + 1]
                   /\ Answer(w, 200, TRUE, Max(0, r.remaining - 1), TRUE,
                             [r EXCEPT !.inc = "ok"])
              ELSE /\ UNCHANGED rate_limits
                   /\ IF outcome = "ok"
                      THEN Answer(w, increment_error_code("ConditionalCheckFailedException"),
                                  FALSE, r.remaining, FALSE,
                                  [r EXCEPT !.inc = "ConditionalCheckFailedException"])
                      ELSE IF outcome = "ResourceNotFoundException"
                      THEN /\ req' = [req EXCEPT ![w].pc = "put_item", ![w].inc = outcome,
                                                 ![w].clean = FALSE]
                           /\ UNCHANGED <<h_total, h_admitted, h_counted>>
                      ELSE IF outcome = "ClientError"
                      THEN Answer(w, increment_error_code(outcome), TRUE, r.remaining, FALSE,
                                  [r EXCEPT !.inc = outcome, !.clean = FALSE])
                      ELSE Answer(w, 200, FALSE, r.remaining, FALSE,
                                  [r EXCEPT !.inc = outcome, !.clean = FALSE])
    /\ UNCHANGED <<kvars, svars, avars, ivars, evars, wvars, now, nreqs, h_puts>>

\* increment_rate_limit, update_item raised ResourceNotFoundException:
\* put_item creates the record with request_count = 1
increment_put_item(w) ==
    /\ req[w].pc = "put_item"
    /\ \E outcome \in Outcomes({"ClientError"}) :
        LET r == req[w]
            ws == r.window_start
        IN /\ Fault(outcome)
           /\ IF outcome = "ok"
              THEN /\ rate_limits' = [rate_limits EXCEPT ![ws] = 1]
                   /\ h_puts' = [h_puts EXCEPT ![ws] = @ + 1]
                   /\ Answer(w, 200, TRUE, Max(0, r.remaining - 1), TRUE, r)
              ELSE /\ UNCHANGED <<rate_limits, h_puts>>
                   /\ Answer(w, increment_error_code(outcome), TRUE, r.remaining, FALSE, r)
    /\ UNCHANGED <<kvars, svars, avars, ivars, evars, wvars, now, nreqs>>

\* a middleware that hands every request on to the endpoint
call_next_always(code) == TRUE

\* rate_limit_middleware: RateLimitExceededError is raised before
\* 'response = await call_next(request)'; every other path goes through it
call_next_reached(code) == code # 429

\* rate_limit_middleware: call_next(request) runs the endpoint, here
\* create_event_endpoint of a POST /events
call_next(w, k, p) ==
    /\ req[w].pc = "done"
    /\ call_next_reached(req[w].code)
    /\ PostEvent(w, k, p)

\* time passes
Tick ==
    /\ now + TickStep <= MaxTime
    /\ now' = now + TickStep
    /\ req' = [v \in Workers |-> IF RInFlight(v) THEN [req[v] EXCEPT !.clean = FALSE] ELSE req[v]]
    /\ h_seq' = (h_seq /\ \A v \in Workers : ~RInFlight(v))
    /\ UNCHANGED <<kvars, svars, avars, ivars, evars, wvars, rate_limits, nreqs, nfaults, h_total, h_admitted, h_counted, h_puts>>

\* ------------------------------------------------------------ specification
\* ------------------------------------------------------ webhook endpoints
NoOwner == "none"        \* item without api_key attribute
NoSecret == <<"secret", 0>>
NoFilter == 2            \* is_active query parameter absent
WebhookOps == {"get", "update", "delete", "test"}

NoWebhookRequest ==
    [op |-> "none", pc |-> "idle", id |-> 1, is_active |-> 0, webhook |-> NoWebhook,
     code |-> 0, body |-> {}]

\* a check that only looks whether the webhook exists
owns_any(webhook, api_key) == webhook # NoWebhook

\* the endpoints' check: not webhook or webhook.get('api_key') != api_key -> NotFound
owns(webhook, api_key) == webhook # NoWebhook /\ webhook.api_key = api_key

\* a response that keeps the item as stored
pop_secret_kept(item) == item

\* webhook.pop('secret', None)
pop_secret(item) == [f \in DOMAIN item \ {"secret"} |-> item[f]]

\* WebhookResponse(webhook_id, url, events, is_active, created_at, request_id)
WebhookResponse(webhook) ==
    [webhook_id |-> webhook.webhook_id, events |-> webhook.events,
     is_active |-> webhook.is_active]

\* list_webhooks without is_active: every webhook of the key, up to Limit
list_webhooks_page(tbl, api_key, is_active, limit) ==
    IF is_active # NoFilter THEN list_webhooks(tbl, api_key, is_active, limit)
    ELSE LET items == {i \in WebhookIds : tbl[i] # NoWebhook /\ tbl[i].api_key = api_key}
             n == Min(Cardinality(items), limit)
         IN {page \in SUBSET items : Cardinality(page) = n}

WebhookIdle(p) == wreq[p].pc \in {"idle", "done"}

Respond(p, code, body) ==
    wreq' = [wreq EXCEPT ![p].pc = "done", ![p].code = code, ![p].body = body]

\* POST /webhooks -> create_webhook_endpoint: put_item, 201 with WebhookResponse
create_webhook_endpoint(p, events_list) ==
    /\ WebhookIdle(p)
    /\ next_webhook <= MaxWebhooks
    /\ nwcalls < MaxWebhookCalls
    /\ LET webhook == webhook_item(next_webhook, p, events_list) IN
        /\ webhooks' = [webhooks EXCEPT ![next_webhook] = webhook]
        /\ wreq' = [wreq EXCEPT ![p] =
                      [NoWebhookRequest EXCEPT !.op = "create", !.pc = "done",
                          !.id = next_webhook, !.code = 201,
                          !.body = {WebhookResponse(webhook)}]]
    /\ next_webhook' = next_webhook + 1
    /\ nwcalls' = nwcalls + 1
    /\ UNCHANGED <<kvars, svars, ivars, evars, rvars, queue, wfaults, h_stopped>>

\* GET /webhooks -> list_webhooks_endpoint: the items of the query, secret popped
list_webhooks_endpoint(p, is_active) ==
    /\ WebhookIdle(p)
    /\ nwcalls < MaxWebhookCalls
    /\ \E page \in list_webhooks_page(webhooks, p, is_active, WebhookLimit) :
          wreq' = [wreq EXCEPT ![p] =
                     [NoWebhookRequest EXCEPT !.op = "list", !.pc = "done",
                         !.is_active = is_active, !.code = 200,
                         !.body = {pop_secret(webhooks[i]) : i \in page}]]
    /\ nwcalls' = nwcalls + 1
    /\ UNCHANGED <<kvars, svars, ivars, evars, rvars, webhooks, next_webhook, queue, wfaults, h_stopped>>

\* GET, PUT, DELETE /webhooks/{webhook_id} and POST /webhooks/{webhook_id}/test
\* arrive
WebhookRequest(p, op, webhook_id, is_active) ==
    /\ WebhookIdle(p)
    /\ nwcalls < MaxWebhookCalls
    /\ wreq' = [wreq EXCEPT ![p] =
                  [NoWebhookRequest EXCEPT !.op = op, !.pc = "get_webhook",
                      !.id = webhook_id, !.is_active = is_active]]
    /\ nwcalls' = nwcalls + 1
    /\ UNCHANGED <<kvars, svars, ivars, evars, rvars, webhooks, next_webhook, queue, wfaults, h_stopped>>

\* webhook = get_webhook(webhook_id), then the ownership check
webhook_endpoint_get_webhook(p) ==
    /\ wreq[p].pc = "get_webhook"
    /\ LET webhook == webhooks[wreq[p].id] IN
        IF ~owns(webhook, p)
        THEN wreq' = [wreq EXCEPT ![p].pc = "done", ![p].code = 404, ![p].webhook = webhook]
        ELSE IF wreq[p].op = "get"
        THEN wreq' = [wreq EXCEPT ![p].pc = "done", ![p].code = 200, ![p].webhook = webhook,
                                  ![p].body = {WebhookResponse(pop_secret(webhook))}]
        ELSE wreq' = [wreq EXCEPT ![p].webhook = webhook,
                                  ![p].pc = IF wreq[p].op = "update" THEN "update_item"
                                            ELSE IF wreq[p].op = "delete" THEN "delete_item"
                                            ELSE "post"]
    /\ UNCHANGED <<kvars, svars, ivars, evars, rvars, wvars>>

\* update_webhook: update_item SET is_active, ReturnValues ALL_NEW.  On a row
\* deleted since the check the update creates an item of webhook_id and
\* is_active alone, and building the response from it fails.
update_webhook_endpoint(p) ==
    /\ wreq[p].pc = "update_item"
    /\ LET id == wreq[p].id
           item == IF webhooks[id] # NoWebhook
                   THEN [webhooks[id] EXCEPT !.is_active = wreq[p].is_active]
                   ELSE [webhook_id |-> id, api_key |-> NoOwner, events |-> {},
                         secret |-> NoSecret, is_active |-> wreq[p].is_active]
       IN /\ webhooks' = [webhooks EXCEPT ![id] = item]
          /\ IF webhooks[id] # NoWebhook
             THEN Respond(p, 200, {WebhookResponse(pop_secret(item))})
             ELSE Respond(p, 500, {})
          /\ queue' = IF wreq[p].is_active = 0 THEN Touched(id) ELSE queue
          /\ h_stopped' = IF wreq[p].is_active = 0 THEN h_stopped \cup {id} ELSE h_stopped
    /\ UNCHANGED <<kvars, svars, ivars, evars, rvars, next_webhook, nwcalls, wfaults>>

\* delete_webhook: delete_item, 204
delete_webhook_endpoint(p) ==
    /\ wreq[p].pc = "delete_item"
    /\ webhooks' = [webhooks EXCEPT ![wreq[p].id] = NoWebhook]
    /\ Respond(p, 204, {})
    /\ queue' = Touched(wreq[p].id)
    /\ h_stopped' = h_stopped \cup {wreq[p].id}
    /\ UNCHANGED <<kvars, svars, ivars, evars, rvars, next_webhook, nwcalls, wfaults>>

\* test_webhook_endpoint: POST of a signed test event to the url of the
\* webhook read at the check; 200 with the outcome
test_webhook_endpoint(p, response) ==
    /\ wreq[p].pc = "post"
    /\ Respond(p, 200, {[webhook_id |-> wreq[p].id,
                        status |-> IF deliver_webhook_sync(response) THEN "success"
                                   ELSE "failed",
                        status_code |-> response]})
    /\ UNCHANGED <<kvars, svars, ivars, evars, rvars, wvars>>

\* ------------------------------------------------------------------ inbox
\* a cursor string is modelled by the stages decode_cursor takes it through:
\* text that is base64 or not, bytes that are JSON or not, a JSON value that
\* is a key of the status-created_at index or something else
NoCursor == [kind |-> "none"]
ValueError == [kind |-> "ValueError"]
QueryLimitMax == 100

\* a key that points before the last item of the page
IndexKey_before(row) ==
    [kind |-> "key", event_id |-> row.event_id - 1, created_at |-> row.created_at - 1,
     status |-> row.status]

\* LastEvaluatedKey of a query on the status-created_at index
IndexKey(row) ==
    [kind |-> "key", event_id |-> row.event_id, created_at |-> row.created_at,
     status |-> row.status]

json_dumps(value) == [kind |-> "json", value |-> value]
b64encode(text) == [kind |-> "b64", text |-> text]

\* encode_cursor: base64.b64encode(json.dumps(key).encode()).decode()
encode_cursor(key) == b64encode(json_dumps(key))

\* a codec that rebuilds the token from the sort key alone
decode_cursor_rebuilt(cursor) ==
    IF cursor.kind # "b64" THEN ValueError
    ELSE IF cursor.text.kind # "json" THEN ValueError
    ELSE IF cursor.text.value.kind # "key" THEN cursor.text.value
    ELSE [cursor.text.value EXCEPT !.event_id = MissingId]

\* decode_cursor: json.loads(base64.b64decode(cursor).decode()); ValueError on
\* binascii.Error, UnicodeDecodeError and JSONDecodeError
decode_cursor(cursor) ==
    IF cursor.kind # "b64" THEN ValueError
    ELSE IF cursor.text.kind # "json" THEN ValueError
    ELSE cursor.text.value

\* cursor strings that no encode_cursor has produced: malformed base64, base64
\* of bytes that are not JSON, base64 of JSON that is not an index key
InvalidCursors ==
    {[kind |-> "malformed"],
     b64encode([kind |-> "bytes"]),
     b64encode(json_dumps([kind |-> "object"]))}

\* the pending partition of the status-created_at index, ScanIndexForward
Before(r, q) ==
    \/ r.created_at < q.created_at
    \/ r.created_at = q.created_at /\ r.event_id <= q.event_id

RECURSIVE SortByCreatedAt(_)
SortByCreatedAt(rows) ==
    IF rows = {} THEN <<>>
    ELSE LET first == CHOOSE r \in rows : \A q \in rows : Before(r, q)
         IN <<first>> \o SortByCreatedAt(rows \ {first})

\* an index whose key condition leaves the status out
PendingIndex_any_status(tbl) ==
    SortByCreatedAt({tbl[e] : e \in {d \in DOMAIN tbl : tbl[d] # NoRow}})

\* status-created_at-index under KeyConditionExpression '#status = :status'
\* with :status = 'pending', ScanIndexForward
PendingIndex(tbl) ==
    SortByCreatedAt({tbl[e] : e \in {d \in DOMAIN tbl : tbl[d].status = "pending"}})

\* table.query(IndexName, KeyConditionExpression, Limit, ExclusiveStartKey):
\* the responses the store can give.  A start key that is not a key of the
\* index is rejected; a page that reaches Limit carries LastEvaluatedKey, and
\* may or may not carry it when it also reaches the end of the partition.
Query(tbl, limit, start) ==
    IF start.kind \notin {"none", "key"}
    THEN {[kind |-> "ValidationException"]}
    ELSE LET rest == IF start.kind = "none" THEN PendingIndex(tbl)
                     ELSE SelectSeq(PendingIndex(tbl),
                                    LAMBDA r : ~Before(r, start))
             items == SubSeq(rest, 1, Min(limit, Len(rest)))
             with_key == [kind |-> "ok", Items |-> items,
                          LastEvaluatedKey |-> IndexKey(items[Len(items)])]
             without_key == [kind |-> "ok", Items |-> items,
                             LastEvaluatedKey |-> NoCursor]
         IN IF Len(rest) > limit THEN {with_key}
            ELSE IF Len(rest) = limit /\ limit > 0 THEN {with_key, without_key}
            ELSE {without_key}

\* query_pending_events: ExclusiveStartKey is set unless decode_cursor raises
\* ValueError; Limit is min(limit, 100)
query_pending_events(tbl, limit, cursor) ==
    LET decoded == IF cursor.kind = "none" THEN NoCursor ELSE decode_cursor(cursor)
        exclusive_start_key == IF decoded.kind = "ValueError" THEN NoCursor ELSE decoded
    IN Query(tbl, Min(limit, QueryLimitMax), exclusive_start_key)

\* an endpoint that never hands out a cursor
next_cursor_absent(last_evaluated_key) == NoCursor

\* get_inbox: next_cursor = encode_cursor(last_evaluated_key) if there is one
next_cursor(last_evaluated_key) ==
    IF last_evaluated_key.kind # "none" THEN encode_cursor(last_evaluated_key)
    ELSE NoCursor

NoRequest ==
    [limit |-> 0, cursor |-> NoCursor, code |-> 0, events |-> <<>>,
     next_cursor |-> NoCursor]

EventIdsOf(items) == [j \in DOMAIN items |-> items[j].event_id]

\* GET /inbox?limit=&cursor= ; an exception of table.query reaches
\* generic_exception_handler
get_inbox(limit, cursor) ==
    /\ \E result \in query_pending_events(events, limit, cursor) :
          IF result.kind = "ValidationException"
          THEN inbox' = [NoRequest EXCEPT !.limit = limit, !.cursor = cursor,
                                          !.code = 500]
          ELSE inbox' = [limit |-> limit, cursor |-> cursor, code |-> 200,
                         events |-> EventIdsOf(result.Items),
                         next_cursor |-> next_cursor(result.LastEvaluatedKey)]
    /\ UNCHANGED <<kvars, svars, avars, evars, rvars, wvars, lookup>>

\* the client asks for the first page
FirstPage(limit) ==
    /\ get_inbox(limit, NoCursor)
    /\ h_pages' = <<inbox'.events>>
    /\ h_pending' = {e \in DOMAIN events : events[e].status = "pending"}

\* the client follows the next_cursor of the page it holds
NextPage ==
    /\ h_pages # <<>>
    /\ inbox.next_cursor.kind # "none"
    /\ get_inbox(inbox.limit, inbox.next_cursor)
    /\ h_pages' = Append(h_pages, inbox'.events)
    /\ UNCHANGED h_pending

\* the client sends a cursor it has made up
InvalidCursorPage(limit, cursor) ==
    /\ get_inbox(limit, cursor)
    /\ h_pages' = <<>>
    /\ h_pending' = {}

\* -------------------------------------------------------------- get_event
\* table.scan(FilterExpression, Limit, ExclusiveStartKey): the store reads up
\* to Limit rows after the start key, then filters them; the page carries
\* LastEvaluatedKey when Limit was reached, at the very end of the table only
\* if key_at_end
NoKeyYet == 0

ScanOrder(tbl) == SortByCreatedAt({tbl[e] : e \in {d \in DOMAIN tbl : tbl[d] # NoRow}})

Scan(tbl, event_id, limit, start, key_at_end) ==
    LET rest == SelectSeq(ScanOrder(tbl), LAMBDA r : r.event_id > start)
        read == SubSeq(rest, 1, Min(limit, Len(rest)))
    IN [Items |-> SelectSeq(read, LAMBDA r : r.event_id = event_id),
        LastEvaluatedKey |->
            IF Len(rest) > limit \/ (Len(rest) = limit /\ key_at_end)
            THEN read[Len(read)].event_id ELSE NoKeyYet]

\* get_event: the while True loop over table.scan
RECURSIVE get_event_scan(_, _, _, _)
get_event_scan(tbl, event_id, start, key_at_end) ==
    LET response == Scan(tbl, event_id, ScanLimit, start, key_at_end)
    IN IF response.Items # <<>> THEN response.Items[1]
       ELSE IF response.LastEvaluatedKey = NoKeyYet THEN NoRow
       ELSE get_event_scan(tbl, event_id, response.LastEvaluatedKey, key_at_end)

\* a fallback that scans once with Limit=1 and does not follow LastEvaluatedKey
get_event_fallback_first_page(tbl, event_id, key_at_end) ==
    LET response == Scan(tbl, event_id, 1, NoKeyYet, key_at_end)
    IN IF response.Items # <<>> THEN response.Items[1] ELSE NoRow

\* get_event: fallback to scan, from the start of the table
get_event_fallback(tbl, event_id, key_at_end) ==
    get_event_scan(tbl, event_id, NoKeyYet, key_at_end)

\* the query on event-id-index: it answers from the index, answers with no
\* item (the index lags behind the table), or raises ClientError
IndexStates == {"available", "lagging", "ClientError"}

\* get_event(event_id) without created_at: the index query, then the scan
get_event_by_id(tbl, event_id, index, key_at_end) ==
    LET items == IF index = "available" /\ event_id \in DOMAIN tbl /\ tbl[event_id] # NoRow
                 THEN <<tbl[event_id]>> ELSE <<>>
    IN IF items # <<>> THEN items[1]
       ELSE get_event_fallback(tbl, event_id, key_at_end)

NoLookup == [event_id |-> MissingId, index |-> "none", result |-> NoRow]

\* GET /events/{event_id} -> get_event(event_id)
GetEvent(event_id, index) ==
    /\ \E key_at_end \in BOOLEAN :
          lookup' = [event_id |-> event_id, index |-> index,
                     result |-> get_event_by_id(events, event_id, index, key_at_end)]
    /\ UNCHANGED <<kvars, svars, avars, evars, rvars, wvars, inbox, h_pages, h_pending>>

\* ---------------------------------------------------------------- signing
\* hmac.new(key, msg, hashlib.sha256).hexdigest(): the digest is modelled by
\* the key and the message it was computed from, that is, without collisions
hmac_sha256_hexdigest(key, msg) == [kind |-> "hex", key |-> key, msg |-> msg]

\* a signature computed under one key for every webhook
generate_webhook_signature_unkeyed(payload, secret) == hmac_sha256_hexdigest(NoSecret, payload)

\* generate_webhook_signature(payload, secret)
generate_webhook_signature(payload, secret) == hmac_sha256_hexdigest(secret, payload)

\* deliver_webhook_sync: payload_json = json.dumps(event_data);
\* signature = generate_webhook_signature(payload_json, secret)
deliver_webhook_signature(event_data, secret) ==
    generate_webhook_signature(json_dumps(event_data), secret)

\* test_webhook_endpoint: payload_json = json.dumps(test_event);
\* signature = hmac.new(secret.encode(), payload_json.encode(), sha256).hexdigest()
test_webhook_signature(test_event, secret) ==
    hmac_sha256_hexdigest(secret, json_dumps(test_event))

\* the subscriber's check: the signature header equals the HMAC-SHA256 of the
\* payload it holds under the secret it holds
verify(payload, signature, secret) == signature = hmac_sha256_hexdigest(secret, payload)

Secrets == {SecretOf(webhook_id) : webhook_id \in WebhookIds}
Snapshots == {new_event(e, payload, NoKey) : e \in EventIds, payload \in Payloads}
Senders == {"worker", "test"}
NoSignature == [kind |-> "none"]
NoDelivery == [pc |-> "none", by |-> "none", event_data |-> NoRow, secret |-> NoSecret,
               signature |-> NoSignature, payload |-> NoCursor, key |-> NoSecret,
               valid |-> FALSE]

\* the worker signs the event snapshot of a delivery message
WorkerSign ==
    /\ signed.pc = "idle"
    /\ signed' = [signed EXCEPT !.pc = "posted", !.by = "worker",
                            !.signature = deliver_webhook_signature(signed.event_data, signed.secret)]
    /\ UNCHANGED <<kvars, avars, ivars, evars, rvars, wvars>>

\* the test endpoint signs its test event
TestSign ==
    /\ signed.pc = "idle"
    /\ signed' = [signed EXCEPT !.pc = "posted", !.by = "test",
                            !.signature = test_webhook_signature(signed.event_data, signed.secret)]
    /\ UNCHANGED <<kvars, avars, ivars, evars, rvars, wvars>>

\* a subscriber checks the signature header against a payload and a secret
SubscriberVerify(payload, secret) ==
    /\ signed.pc = "posted"
    /\ signed' = [signed EXCEPT !.pc = "verified", !.payload = payload, !.key = secret,
                            !.valid = verify(payload, signed.signature, secret)]
    /\ UNCHANGED <<kvars, avars, ivars, evars, rvars, wvars>>

\* ------------------------------------------------------ api key rotation
KeyIds == 1..MaxKeys
SeededKey == 1           \* the key the table is seeded with
NoApiKey == [status |-> "absent"]
NoExpiry == -1           \* item without expires_at attribute
NoRotation == [pc |-> "idle", key_id |-> 0, transition_days |-> 0, version |-> 0, code |-> 0]
NoSweep == [pc |-> "idle", items |-> {}, expired_count |-> 0]

\* datetime.now(timezone.utc) > exp_time, for an item with expires_at
has_expired(item, current_time) ==
    item.expires_at # NoExpiry /\ current_time > item.expires_at

\* the checks of validate_api_key (AUTH_MODE aws) on the item of api_key
validate_api_key(table, current_time, api_key) ==
    LET item == table[api_key] IN
    /\ item # NoApiKey
    /\ item.is_active
    /\ item.status # "expired"
    /\ ~has_expired(item, current_time)
    /\ item.status \in {"active", "rotating"}

\* an item whose status is expired or whose expires_at has passed
KeyExpired(table, current_time, api_key) ==
    /\ table[api_key] # NoApiKey
    /\ (table[api_key].status = "expired" \/ has_expired(table[api_key], current_time))

Remember ==
    h_expired' = h_expired \cup {k \in KeyIds : KeyExpired(api_keys', today', k)}

\* POST /api-keys/{key_id}/rotate by the holder of authenticated_api_key:
\* get_api_key, then the get_item of rotate_api_key
rotate_key_endpoint(authenticated_api_key, key_id, transition_days) ==
    /\ rot.pc = "idle"
    /\ next_key <= MaxKeys
    /\ validate_api_key(api_keys, today, authenticated_api_key)
    /\ IF api_keys[key_id] = NoApiKey
         THEN rot' = [NoRotation EXCEPT !.code = 404]
         ELSE rot' = [pc |-> "update_item", key_id |-> key_id,
                      transition_days |-> transition_days,
                      version |-> api_keys[key_id].version + 1, code |-> 0]
    /\ UNCHANGED <<api_keys, next_key, today, sweep, h_expired>>
    /\ UNCHANGED <<svars, avars, ivars, evars, rvars, wvars>>

\* update_item of rotate_api_key: the old key becomes "rotating" and expires
\* transition_days from now
rotate_api_key_set(item, expires_at) ==
    [item EXCEPT !.status = "rotating", !.expires_at = expires_at]

rotate_api_key_update ==
    /\ rot.pc = "update_item"
    /\ api_keys' = [api_keys EXCEPT ![rot.key_id] = rotate_api_key_set(@, today + rot.transition_days)]
    /\ rot' = [rot EXCEPT !.pc = "put_item"]
    /\ UNCHANGED <<next_key, today, sweep>>
    /\ UNCHANGED <<svars, avars, ivars, evars, rvars, wvars>>
    /\ Remember

\* put_item of rotate_api_key: the new key, status "active"
rotate_api_key_put ==
    /\ rot.pc = "put_item"
    /\ api_keys' = [api_keys EXCEPT ![next_key] =
                       [status |-> "active", expires_at |-> NoExpiry, version |-> rot.version,
                        previous_version |-> rot.key_id, is_active |-> TRUE]]
    /\ next_key' = next_key + 1
    /\ rot' = [NoRotation EXCEPT !.code = 200]
    /\ UNCHANGED <<today, sweep>>
    /\ UNCHANGED <<svars, avars, ivars, evars, rvars, wvars>>
    /\ Remember

\* key_expiration.handler: the scan for status "rotating" and the test
\* current_time > expires_at on each item it returns
handler_scan ==
    /\ sweep.pc = "idle"
    /\ LET items == {k \in KeyIds : /\ api_keys[k] # NoApiKey
                                    /\ api_keys[k].status = "rotating"
                                    /\ has_expired(api_keys[k], today)} IN
       sweep' = [pc |-> IF items = {} THEN "idle" ELSE "update_item",
                 items |-> items, expired_count |-> 0]
    /\ UNCHANGED <<api_keys, next_key, today, rot, h_expired>>
    /\ UNCHANGED <<svars, avars, ivars, evars, rvars, wvars>>

\* key_expiration.handler: update_item SET status = expired on one item
handler_update_item(api_key) ==
    /\ sweep.pc = "update_item"
    /\ api_key \in sweep.items
    /\ api_keys' = [api_keys EXCEPT ![api_key].status = "expired"]
    /\ sweep' = [pc |-> IF sweep.items = {api_key} THEN "idle" ELSE "update_item",
                 items |-> sweep.items \ {api_key},
                 expired_count |-> sweep.expired_count + 1]
    /\ UNCHANGED <<next_key, today, rot>>
    /\ UNCHANGED <<svars, avars, ivars, evars, rvars, wvars>>
    /\ Remember

\* a day passes
KeyTick ==
    /\ today < MaxKeyTime
    /\ today' = today + 1
    /\ UNCHANGED <<api_keys, next_key, rot, sweep>>
    /\ UNCHANGED <<svars, avars, ivars, evars, rvars, wvars>>
    /\ Remember

KeysInit ==
    /\ api_keys = [k \in KeyIds |->
                     IF k = SeededKey
                     THEN [status |-> "active", expires_at |-> NoExpiry, version |-> 1,
                           previous_version |-> 0, is_active |-> TRUE]
                     ELSE NoApiKey]
    /\ next_key = SeededKey + 1
    /\ today = 0
    /\ rot = NoRotation
    /\ sweep = NoSweep
    /\ h_expired = {}

KeyNext ==
    \/ KeyTick
    \/ handler_scan
    \/ \E k \in KeyIds : handler_update_item(k)
    \/ \E a, k \in KeyIds, d \in 1..MaxDays : rotate_key_endpoint(a, k, d)
    \/ rotate_api_key_update
    \/ rotate_api_key_put

Init ==
    /\ events = [e \in EventIds |-> NoRow]
    /\ idempotency = [k \in IdemKeys |-> NoItem]
    /\ next_uuid = 1
    /\ call = [w \in Workers |-> Idle]
    /\ ncalls = 0
    /\ h_returned = [k \in IdemKeys |-> {}]
    /\ h_racy = [k \in IdemKeys |-> FALSE]
    /\ h_removed = {}
    /\ h_updates = [e \in EventIds |-> 0]
    /\ now = 0
    /\ rate_limits = [ws \in WindowStarts |-> NoRecord]
    /\ req = [w \in Workers |-> RIdle]
    /\ nreqs = 0
    /\ nfaults = 0
    /\ h_total = [ws \in WindowStarts |-> 0]
    /\ h_admitted = [ws \in WindowStarts |-> 0]
    /\ h_counted = [ws \in WindowStarts |-> 0]
    /\ h_puts = [ws \in WindowStarts |-> 0]
    /\ h_seq = TRUE
    /\ webhooks = [i \in WebhookIds |-> NoWebhook]
    /\ next_webhook = 1
    /\ nwcalls = 0
    /\ queue = <<>>
    /\ wfaults = 0
    /\ h_stopped = {}
    /\ inbox = NoRequest
    /\ h_pages = <<>>
    /\ h_pending = {}
    /\ lookup = NoLookup
    /\ wreq = [p \in ApiKeys |-> NoWebhookRequest]
    /\ signed = NoDelivery
    /\ KeysInit

Next ==
    \E w \in Workers :
        \/ StartCreate(w)
        \/ create_event_check(w)
        \/ create_event_get(w)
        \/ create_event_put(w)
        \/ create_event_store(w)
        \/ StartAck(w)
        \/ acknowledge_event_get(w)
        \/ acknowledge_event_update(w)
        \/ acknowledge_event_endpoint(w)
        \/ StartDelete(w)
        \/ delete_event_get(w)
        \/ delete_event_delete(w)
        \/ StartBulkCreate(w)
        \/ bulk_create_check(w)
        \/ bulk_create_get(w)
        \/ bulk_create_write(w)
        \/ bulk_create_store(w)
        \/ StartBulkAck(w)
        \/ bulk_acknowledge_lookup(w)
        \/ bulk_acknowledge_get(w)
        \/ bulk_acknowledge_update(w)

Spec == Init /\ [][Next]_vars

\* rotations, runs of the expiration handler and the clock
KeySpec == Init /\ [][KeyNext]_vars

\* Create requests while the ledger table may fail
CreateFaultNext ==
    \E w \in Workers :
        \/ StartCreate(w)
        \/ create_event_check(w)
        \/ create_event_get(w)
        \/ create_event_put(w)
        \/ create_event_store(w)
        \/ create_event_store_error(w)

CreateFaultSpec == Init /\ [][CreateFaultNext]_vars

RateNext ==
    \/ Tick
    \/ \E w \in Workers :
        \/ RateStart(w)
        \/ check_rate_limit(w)
        \/ increment_rate_limit(w)
        \/ increment_put_item(w)

RateSpec == Init /\ [][RateNext]_vars

\* POST /events requests behind the rate limiter; a worker takes its next
\* request when it has answered the one before
GateNext ==
    \/ Tick
    \/ \E w \in Workers :
        \/ ~InFlight(w) /\ RateStart(w)
        \/ check_rate_limit(w)
        \/ increment_rate_limit(w)
        \/ increment_put_item(w)
        \/ \E k \in IdemKeys \cup {NoKey} : call_next(w, k, "p1")
        \/ create_event_check(w)
        \/ create_event_get(w)
        \/ create_event_put(w)
        \/ create_event_store(w)

GateSpec == Init /\ [][GateNext]_vars

\* webhook selection: the POST /events requests of one client, one after
\* another, next to webhook requests of every kind
DispatchNext ==
    \/ \E k \in IdemKeys \cup {NoKey} : PostEvent(1, k, "p1")
    \/ create_event_check(1)
    \/ create_event_get(1)
    \/ create_event_put(1)
    \/ create_event_store(1)
    \/ create_event_webhooks(1)
    \/ create_event_send(1)
    \/ \E webhook \in WebhookInputs : create_webhook(webhook[1], webhook[2])
    \/ \E webhook_id \in WebhookIds, is_active \in {0, 1} : update_webhook(webhook_id, is_active)
    \/ \E webhook_id \in WebhookIds : delete_webhook(webhook_id)

DispatchSpec == Init /\ [][DispatchNext]_vars

\* delivery: one webhook of the ingesting principal that subscribes to every
\* event type, its POST /events requests without idempotency key, the queue
\* and the delivery worker
DeliveryNext ==
    \/ PostEvent(1, NoKey, "p1")
    \/ create_event_put(1)
    \/ create_event_webhooks(1)
    \/ create_event_send(1)
    \/ next_webhook = 1 /\ create_webhook(ApiKey, {"*"})
    \/ \E is_active \in {0, 1} : update_webhook(1, is_active)
    \/ delete_webhook(1)
    \/ \E m \in 1..MaxMessages :
        \/ m \in DOMAIN queue /\ Receive(m)
        \/ m \in DOMAIN queue /\ handler_get_webhook(m)
        \/ m \in DOMAIN queue /\ handler_backoff(m)
        \/ m \in DOMAIN queue /\ handler_deliver(m)

DeliverySpec == Init /\ [][DeliveryNext]_vars

\* the delivery of the messages of one POST /events
OneEventNext ==
    \/ ncalls = 0 /\ PostEvent(1, NoKey, "p1")
    \/ create_event_put(1)
    \/ create_event_webhooks(1)
    \/ create_event_send(1)
    \/ next_webhook = 1 /\ create_webhook(ApiKey, {"*"})
    \/ \E is_active \in {0, 1} : update_webhook(1, is_active)
    \/ delete_webhook(1)
    \/ \E m \in 1..MaxMessages :
        \/ m \in DOMAIN queue /\ Receive(m)
        \/ m \in DOMAIN queue /\ handler_get_webhook(m)
        \/ m \in DOMAIN queue /\ handler_backoff(m)
        \/ m \in DOMAIN queue /\ handler_deliver(m)

\* a request that has started runs to its response; the queue hands every
\* visible message to the worker, and the worker finishes every record
FairDeliverySpec ==
    /\ Init /\ [][OneEventNext]_vars
    /\ WF_vars(create_event_put(1))
    /\ WF_vars(create_event_webhooks(1))
    /\ WF_vars(create_event_send(1))
    /\ \A m \in 1..MaxMessages :
        /\ WF_vars(m \in DOMAIN queue /\ Receive(m))
        /\ WF_vars(m \in DOMAIN queue /\ handler_get_webhook(m))
        /\ WF_vars(m \in DOMAIN queue /\ handler_backoff(m))
        /\ WF_vars(m \in DOMAIN queue /\ handler_deliver(m))

\* the inbox is read from a table that earlier requests have filled: every row
\* is pending, acknowledged or deleted
InboxTables ==
    [1..MaxInboxRows -> {"pending", "acknowledged", "absent"}]

InboxRow(e, status) ==
    IF status = "absent" THEN NoRow
    ELSE IF status = "acknowledged" THEN ack_update(new_event(e, "p1", NoKey))
    ELSE new_event(e, "p1", NoKey)

InboxInit ==
    /\ \E statuses \in InboxTables :
          events = [e \in 1..MaxInboxRows |-> InboxRow(e, statuses[e])]
    /\ next_uuid = MaxInboxRows + 1
    /\ idempotency = [k \in IdemKeys |-> NoItem]
    /\ call = [w \in Workers |-> Idle]
    /\ ncalls = 0
    /\ h_returned = [k \in IdemKeys |-> {}]
    /\ h_racy = [k \in IdemKeys |-> FALSE]
    /\ h_removed = {}
    /\ h_updates = [e \in EventIds |-> 0]
    /\ now = 0
    /\ rate_limits = [ws \in WindowStarts |-> NoRecord]
    /\ req = [w \in Workers |-> RIdle]
    /\ nreqs = 0
    /\ nfaults = 0
    /\ h_total = [ws \in WindowStarts |-> 0]
    /\ h_admitted = [ws \in WindowStarts |-> 0]
    /\ h_counted = [ws \in WindowStarts |-> 0]
    /\ h_puts = [ws \in WindowStarts |-> 0]
    /\ h_seq = TRUE
    /\ webhooks = [i \in WebhookIds |-> NoWebhook]
    /\ next_webhook = 1
    /\ nwcalls = 0
    /\ queue = <<>>
    /\ wfaults = 0
    /\ h_stopped = {}
    /\ inbox = NoRequest
    /\ h_pages = <<>>
    /\ h_pending = {}
    /\ lookup = NoLookup
    /\ wreq = [p \in ApiKeys |-> NoWebhookRequest]
    /\ signed = NoDelivery
    /\ KeysInit

InboxNext ==
    \/ \E limit \in 1..MaxLimit : FirstPage(limit)
    \/ NextPage
    \/ \E limit \in 1..MaxLimit, cursor \in InvalidCursors : InvalidCursorPage(limit, cursor)

InboxSpec == InboxInit /\ [][InboxNext]_vars

\* the inbox is read while events are created, acknowledged and deleted
LifecycleNext ==
    \/ \E w \in Workers :
        \/ StartCreate(w)
        \/ create_event_check(w)
        \/ create_event_get(w)
        \/ create_event_put(w)
        \/ create_event_store(w)
        \/ StartAck(w)
        \/ acknowledge_event_get(w)
        \/ acknowledge_event_update(w)
        \/ acknowledge_event_endpoint(w)
        \/ StartDelete(w)
        \/ delete_event_get(w)
        \/ delete_event_delete(w)
    \/ \E limit \in 1..MaxLimit : FirstPage(limit)
    \/ NextPage

LifecycleSpec == Init /\ [][LifecycleNext]_vars

\* lookups by id in a table that earlier requests have filled
GetNext ==
    \E event_id \in 0..MaxInboxRows, index \in IndexStates : GetEvent(event_id, index)

GetSpec == InboxInit /\ [][GetNext]_vars

\* signatures of event snapshots under webhook secrets
SignInit ==
    /\ \E event_data \in Snapshots, secret \in Secrets :
          signed = [NoDelivery EXCEPT !.pc = "idle", !.event_data = event_data,
                                    !.secret = secret]
    /\ events = [e \in EventIds |-> NoRow]
    /\ next_uuid = 1
    /\ idempotency = [k \in IdemKeys |-> NoItem]
    /\ call = [w \in Workers |-> Idle]
    /\ ncalls = 0
    /\ h_returned = [k \in IdemKeys |-> {}]
    /\ h_racy = [k \in IdemKeys |-> FALSE]
    /\ h_removed = {}
    /\ h_updates = [e \in EventIds |-> 0]
    /\ now = 0
    /\ rate_limits = [ws \in WindowStarts |-> NoRecord]
    /\ req = [w \in Workers |-> RIdle]
    /\ nreqs = 0
    /\ nfaults = 0
    /\ h_total = [ws \in WindowStarts |-> 0]
    /\ h_admitted = [ws \in WindowStarts |-> 0]
    /\ h_counted = [ws \in WindowStarts |-> 0]
    /\ h_puts = [ws \in WindowStarts |-> 0]
    /\ h_seq = TRUE
    /\ webhooks = [i \in WebhookIds |-> NoWebhook]
    /\ next_webhook = 1
    /\ nwcalls = 0
    /\ queue = <<>>
    /\ wfaults = 0
    /\ h_stopped = {}
    /\ inbox = NoRequest
    /\ h_pages = <<>>
    /\ h_pending = {}
    /\ lookup = NoLookup
    /\ wreq = [p \in ApiKeys |-> NoWebhookRequest]
    /\ KeysInit

SignNext ==
    \/ WorkerSign
    \/ TestSign
    \/ \E event_data \in Snapshots, secret \in Secrets :
          SubscriberVerify(json_dumps(event_data), secret)

SignSpec == SignInit /\ [][SignNext]_vars

\* the webhook endpoints, called by two principals, and one POST /events
WebhookNext ==
    \/ ncalls = 0 /\ PostEvent(1, NoKey, "p1")
    \/ create_event_put(1)
    \/ create_event_webhooks(1)
    \/ create_event_send(1)
    \/ \E p \in ApiKeys :
            \/ create_webhook_endpoint(p, {"*"})
            \/ \E is_active \in {0, 1, NoFilter} : list_webhooks_endpoint(p, is_active)
            \/ \E op \in WebhookOps, webhook_id \in WebhookIds :
                  WebhookRequest(p, op, webhook_id, 0)
            \/ \E webhook_id \in WebhookIds : WebhookRequest(p, "update", webhook_id, 1)
            \/ webhook_endpoint_get_webhook(p)
            \/ update_webhook_endpoint(p)
            \/ delete_webhook_endpoint(p)
            \/ \E response \in {200, 503} : test_webhook_endpoint(p, response)

WebhookSpec == Init /\ [][WebhookNext]_vars

\* ------------------------------------------------------------------ claims
Removed(e) == \E p \in h_removed : p[1] = e
RemovedKey(k) == \E p \in h_removed : p[2] = k
RowsOf(k) == {e \in EventIds : events[e] # NoRow /\ events[e].key = k}
Done(w, op) == call[w].pc = "done" /\ call[w].op = op
Finishes(w, op) == call[w].pc # "done" /\ call'[w].pc = "done" /\ call'[w].op = op

\* C1: Create calls with the same idempotency key that follow one another
\* (none overlaps another, no row of the key was deleted) all return the same
\* event_id, whatever their payloads, and the events table holds exactly one
\* row created for the key.
C1_SequentialIdempotentCreate ==
    \A k \in IdemKeys :
        (~h_racy[k] /\ ~RemovedKey(k) /\ h_returned[k] # {}) =>
            /\ Cardinality(h_returned[k]) = 1
            /\ RowsOf(k) = h_returned[k]

\* a second Create with another payload returned the first call's event
C1_Witness ==
    \E w \in Workers, k \in IdemKeys :
        /\ Done(w, "create") /\ call[w].key = k /\ call[w].code = 201
        /\ ~h_racy[k] /\ ~RemovedKey(k)
        /\ call[w].event.payload # call[w].payload
        /\ h_returned[k] = {call[w].event.event_id}

\* C2: all Create calls carrying the same idempotency key, concurrent ones
\* included, are returned the same event_id (no row of the key was deleted).
C2_AllCallersSameEvent ==
    \A w, v \in Workers :
        (/\ Done(w, "create") /\ Done(v, "create")
         /\ call[w].key # NoKey /\ call[w].key = call[v].key
         /\ ~RemovedKey(call[w].key)) =>
            call[w].event.event_id = call[v].event.event_id

\* C3: of the Acknowledge calls on an event that existed when they started and
\* is never deleted, exactly one conditional update succeeds; a finished call
\* has got 200 with status acknowledged or 409, and some call has won.
C3_SingleWinnerAcknowledge ==
    \A e \in EventIds : ~Removed(e) =>
        /\ h_updates[e] <= 1
        /\ \A w \in Workers :
            (Done(w, "ack") /\ call[w].id = e /\ call[w].pre # NoRow) =>
                /\ call[w].code \in {200, 409}
                /\ h_updates[e] = 1
                /\ call[w].code = 200 => call[w].event.status = "acknowledged"
                /\ \A v \in Workers \ {w} :
                    (Done(v, "ack") /\ call[v].id = e) => ~(call[v].code = 200 /\ call[w].code = 200)

\* two overlapping Acknowledge calls on one pending event: one 200, one 409
C3_Witness ==
    \E w, v \in Workers :
        /\ w # v /\ Done(w, "ack") /\ Done(v, "ack")
        /\ call[w].id = call[v].id /\ ~Removed(call[w].id)
        /\ ~call[w].solo /\ ~call[v].solo
        /\ call[w].pre # NoRow /\ call[w].pre.status = "pending"
        /\ call[v].pre # NoRow /\ call[v].pre.status = "pending"
        /\ call[w].code = 200 /\ call[v].code = 409

\* C4: a step changes an existing event row only from pending to acknowledged
\* (or deletes it); an acknowledged row is never changed again, and a row gets
\* at most one successful update.
C4_StatusMonotonic ==
    [][\A e \in EventIds :
        /\ (events[e] # NoRow /\ events'[e] # NoRow /\ events'[e] # events[e]) =>
              (events[e].status = "pending" /\ events'[e].status = "acknowledged")
        /\ (events[e] # NoRow /\ events[e].status = "acknowledged" /\ events'[e] # NoRow) =>
              events'[e].status = "acknowledged"
        /\ h_updates'[e] <= 1]_vars

\* a bulk acknowledge met an already acknowledged event and reported CONFLICT
C4_Witness ==
    \E w \in Workers :
        /\ Done(w, "bulk_ack")
        /\ \E f \in call[w].failed :
            /\ f[2] = "CONFLICT"
            /\ get_event(events, call[w].batch[f[1]]) # NoRow
            /\ get_event(events, call[w].batch[f[1]]).status = "acknowledged"
            /\ h_updates[call[w].batch[f[1]]] = 1

\* C5: an Acknowledge call that runs alone answers 404 when the event does not
\* exist, 409 when it is already acknowledged, both leaving the row as it was,
\* and otherwise 200 with status acknowledged and an acknowledged_at timestamp.
C5_AcknowledgeOutcomes ==
    [][\A w \in Workers :
        (Finishes(w, "ack") /\ call'[w].solo) =>
            LET c == call'[w]
                row == get_event(events', c.id)
            IN /\ c.pre = NoRow => (c.code = 404 /\ row = NoRow)
               /\ (c.pre # NoRow /\ c.pre.status = "acknowledged") =>
                      (c.code = 409 /\ row = c.pre)
               /\ (c.pre # NoRow /\ c.pre.status = "pending") =>
                      /\ c.code = 200
                      /\ c.event = row
                      /\ row.status = "acknowledged" /\ row.acknowledged_at # "none"
               /\ c.code \in {404, 409} => events' = events]_vars

\* an Acknowledge that ran alone on an acknowledged event got 409
C5_Witness ==
    \E w \in Workers :
        /\ Done(w, "ack") /\ call[w].solo
        /\ call[w].pre # NoRow /\ call[w].pre.status = "acknowledged"
        /\ call[w].code = 409

\* C35: once a Delete has removed the row of an event, no row with that id
\* exists afterwards; an Acknowledge that found the event and whose update
\* runs after the row is gone changes nothing in the events table and goes on
\* to its failure answer.
C35_NoResurrection ==
    [][/\ \A e \in EventIds :
            (Removed(e) /\ events[e] = NoRow) => events'[e] = NoRow
       /\ \A w \in Workers :
            (/\ call[w].op = "ack" /\ call[w].pc = "update_item"
             /\ events[call[w].id] = NoRow
             /\ call'[w].pc # "update_item") =>
                (events' = events /\ call'[w].pc = "ack_recheck")]_vars

\* an Acknowledge found the event, a Delete removed it, and the Acknowledge
\* then answered 404
C35_Witness ==
    \E w \in Workers :
        /\ Done(w, "ack") /\ call[w].code = 404
        /\ call[w].created_at # 0
        /\ Removed(call[w].id) /\ events[call[w].id] = NoRow

\* C37: a Create with an idempotency key that ends with 500 because the
\* ledger write failed has left no event row behind.
C37_FailedCreateLeavesNothing ==
    \A w \in Workers :
        (Done(w, "create") /\ call[w].code = 500 /\ call[w].key # NoKey) =>
            events[call[w].id] = NoRow

\* C39: in every state an event row carries an acknowledged_at value exactly
\* when its status is acknowledged; a pending row carries none.
C39_StatusAndTimestampAgree ==
    \A e \in EventIds :
        events[e] # NoRow =>
            /\ events[e].status \in {"pending", "acknowledged"}
            /\ events[e].acknowledged_at # "none" <=> events[e].status = "acknowledged"

\* an acknowledged row with its timestamp next to a pending row without one
C39_Witness ==
    \E e, d \in EventIds :
        /\ events[e] # NoRow /\ events[d] # NoRow
        /\ events[e].status = "acknowledged" /\ events[e].acknowledged_at # "none"
        /\ events[d].status = "pending" /\ events[d].acknowledged_at = "none"

\* C6: every Delete call returns 200: on an id that never existed, on an id
\* already deleted, and on a pending or acknowledged event.
C6_DeleteIdempotent ==
    \A w \in Workers : Done(w, "delete") => call[w].code = 200

\* a second Delete of an event that a first Delete removed returned 200
C6_Witness ==
    \E w \in Workers :
        /\ Done(w, "delete") /\ call[w].code = 200
        /\ call[w].pre = NoRow /\ Removed(call[w].id)

RDone(w) == req[w].pc = "done"

\* C7: while requests come one after another without backend errors, of the
\* requests answered in a window exactly the first RateLimit are admitted.
C7_FirstLimitAdmitted ==
    h_seq => \A ws \in WindowStarts : h_admitted[ws] = Min(h_total[ws], RateLimit)

\* C8: the stored request_count never exceeds the limit; the requests admitted
\* through the counter of a window never exceed the limit (no backend error,
\* or one that made put_item create the counter once); a request that Check
\* allowed and whose conditional increment failed is answered 429.
C8_NoOverAdmission ==
    /\ \A ws \in WindowStarts :
        /\ rate_limits[ws] # NoRecord => rate_limits[ws] <= RateLimit
        /\ h_puts[ws] <= 1 => h_counted[ws] <= RateLimit
        /\ nfaults = 0 => h_admitted[ws] <= RateLimit
    /\ \A w \in Workers :
        (RDone(w) /\ req[w].allowed /\ req[w].inc = "ConditionalCheckFailedException") =>
            req[w].code = 429

\* Check allowed a request below the limit, another request took the last
\* slot, and the conditional increment rejected this one
C8_Witness ==
    \E w \in Workers :
        /\ RDone(w) /\ req[w].allowed /\ req[w].code = 429
        /\ req[w].inc = "ConditionalCheckFailedException"
        /\ req[w].pre # NoRecord /\ req[w].pre < RateLimit
        /\ rate_limits[req[w].window_start] = RateLimit

\* C9: a request handled alone, within one clock reading and without backend
\* error, in a window that has no counter yet, after the previous window's
\* counter reached the limit, is admitted.
C9_AdmittedAfterRollover ==
    \A w \in Workers :
        (RDone(w) /\ req[w].clean /\ req[w].prev_full /\ req[w].pre = NoRecord) =>
            req[w].code = 200

C31_FirstIncrementCreates ==
    [][\A w \in Workers :
          (/\ req[w].pc = "increment_rate_limit"
           /\ rate_limits[req[w].window_start] = NoRecord
           /\ req'[w].pc = "done"
           /\ nfaults' = nfaults) =>
              /\ rate_limits'[req[w].window_start] = 1
              /\ req'[w].inc # "ConditionalCheckFailedException"]_vars

\* C34: within one request the window whose counter increment_rate_limit
\* addresses is the window whose counter check_rate_limit read and whose end
\* is reported as reset_at.
C34_SameWindow ==
    \A w \in Workers :
        (\/ req[w].pc \in {"increment_rate_limit", "put_item"}
         \/ RDone(w) /\ req[w].inc # "none") =>
            req[w].reset_timestamp = req[w].window_start + WindowSeconds

Messages == DOMAIN queue
ClientError4xx(response) == 400 <= response /\ response < 500
Retryable(response) == response = RequestsTimeout \/ response >= 500
OnQueue(m) == queue[m].state \in {"visible", "received", "deliver"}

\* C11: a 4xx response is the last POST of its message: the message is not
\* handed back to the queue and no further delivery attempt follows; a 404 on
\* the first attempt leaves exactly one attempt.
C11_ClientErrorTerminal ==
    \A m \in Messages :
        \A j \in 1..Len(queue[m].codes) :
            ClientError4xx(queue[m].codes[j]) =>
                (j = Len(queue[m].codes) /\ ~OnQueue(m))

\* C12: while its webhook stays active and readable and every POST is answered
\* 503 or times out, a message is attempted with the indices 0, 1, 2 of its
\* receive count, is handed back to the queue after the attempts 0 and 1, and
\* is dead-lettered after attempt 2; it is never deleted and never attempted a
\* fourth time.
C12_RetryThenDeadLetter ==
    \A m \in Messages :
        LET msg == queue[m] IN
        /\ Len(msg.codes) <= 3
        /\ (msg.clean /\ \A j \in 1..Len(msg.codes) : Retryable(msg.codes[j])) =>
            /\ msg.state # "deleted"
            /\ msg.state = "visible" => (Len(msg.codes) = msg.receive_count /\ msg.receive_count < 3)
            /\ msg.state = "deliver" => (msg.retry_count = Len(msg.codes) /\ msg.retry_count <= 2)
            /\ msg.state = "dlq" <=> Len(msg.codes) = 3

\* a message dead-lettered after a timeout and two 503 responses
C12_Witness ==
    \E m \in Messages :
        /\ queue[m].state = "dlq" /\ queue[m].clean
        /\ queue[m].codes = <<RequestsTimeout, 503, 503>>
        /\ queue[m].receive_count = 3

\* C13: when the handler reads a webhook that is inactive at that moment, the
\* message is removed from the queue without a POST, and nothing happens to it
\* afterwards: no retry, no dead-lettering.
C13_InactiveSkipped ==
    [][\A m \in Messages :
        LET msg == queue[m]
            webhook == webhooks[msg.webhook_id]
        IN /\ (/\ msg.state = "received" /\ queue'[m].state # "received"
               /\ wfaults' = wfaults
               /\ webhook # NoWebhook /\ webhook.is_active = 0) =>
                  (queue'[m].state = "deleted" /\ queue'[m].codes = msg.codes)
           /\ msg.skipped => queue'[m] = msg]_vars

\* a message whose webhook was deactivated after it was enqueued and a first
\* attempt had failed: removed on its second receive
C13_Witness ==
    \E m \in Messages :
        /\ queue[m].skipped /\ queue[m].state = "deleted"
        /\ queue[m].receive_count = 2 /\ Len(queue[m].codes) = 1
        /\ webhooks[queue[m].webhook_id] # NoWebhook
        /\ webhooks[queue[m].webhook_id].is_active = 0

\* C14: a POST /events that ended without a failing webhook query or send has
\* enqueued exactly one message for every webhook that was, when the endpoint
\* looked them up, active, owned by the principal and subscribed to the event
\* type or to "*", and none for any other webhook.
C14_OneMessagePerMatchingWebhook ==
    \A w \in Workers :
        (Done(w, "create") /\ call[w].lookup = "ok" /\ call[w].send_errors = 0) =>
            /\ {call[w].sent[j] : j \in DOMAIN call[w].sent} = call[w].matching
            /\ Len(call[w].sent) = Cardinality(call[w].matching)

\* C15: a POST /events whose webhook query or whose send_webhook_message
\* failed is answered 201 with the created event, and the event row is stored.
C15_WebhookErrorsIsolated ==
    \A w \in Workers :
        (Done(w, "create") /\ (call[w].lookup = "ClientError" \/ call[w].send_errors > 0)) =>
            /\ call[w].code = 201
            /\ call[w].event # NoRow
            /\ get_event(events, call[w].event.event_id) = call[w].event

\* the webhook query of a POST /events failed while a matching webhook existed
C15_Witness ==
    \E w \in Workers :
        /\ Done(w, "create") /\ call[w].lookup = "ClientError" /\ call[w].code = 201
        /\ call[w].sent = <<>>
        /\ \E i \in WebhookIds :
            /\ webhooks[i] # NoWebhook /\ webhooks[i].is_active = 1
            /\ webhooks[i].api_key = ApiKey /\ "*" \in webhooks[i].events

Active(i) == webhooks[i] # NoWebhook /\ webhooks[i].is_active = 1
Posted(i, e) ==
    \E m \in Messages :
        queue[m].webhook_id = i /\ queue[m].event_id = e /\ Len(queue[m].codes) >= 1

C33_ReplayEnqueuesNothing ==
    \A m, n \in Messages :
        (/\ queue[m].webhook_id = queue[n].webhook_id
         /\ queue[m].event_id = queue[n].event_id) => m = n

\* -------------------------------------------------------------- backoff
\* C32: the worker sleeps 0 seconds before attempt 0 and 2^(a-1) seconds
\* before attempt a >= 1, where a is the message's receive count - 1; the
\* delays of a message never decrease; every POST is preceded by the sleep of
\* its attempt and no sleep follows a POST within the same receive.
C32_BackoffSchedule ==
    \A m \in Messages :
        LET d == queue[m].delays
            sleeping == queue[m].state = "deliver" /\ queue[m].slept
        IN /\ \A j \in DOMAIN d :
                /\ d[j].retry_count = 0 => d[j].delay = 0
                /\ d[j].retry_count >= 1 => d[j].delay = 2 ^ (d[j].retry_count - 1)
           /\ \A i, j \in DOMAIN d :
                i < j => (d[i].retry_count < d[j].retry_count /\ d[i].delay <= d[j].delay)
           /\ Len(d) = Len(queue[m].codes) + (IF sleeping THEN 1 ELSE 0)
           /\ sleeping => d[Len(d)].retry_count = queue[m].receive_count - 1

\* a message was POSTed three times, after sleeps of 0, 1 and 2 seconds
C32_Witness ==
    \E m \in Messages :
        /\ Len(queue[m].codes) = 3
        /\ [j \in 1..3 |-> queue[m].delays[j].delay] = <<0, 1, 2>>

\* ------------------------------------------------ the end of a message
\* the message has left the queue: deleted by the queue after the handler did
\* not report it, or moved to the dead-letter queue
Terminal(m) == queue[m].state \in {"deleted", "dlq"}

\* the last POST of the message was answered 2xx
LastPostSucceeded(m) ==
    /\ queue[m].codes # <<>>
    /\ deliver_webhook_sync(queue[m].codes[Len(queue[m].codes)])

\* C27: every delivery message on the queue eventually leaves it; a message
\* that was deleted had a 2xx answer to its last POST or was skipped for an
\* inactive webhook, every other one ends in the dead-letter queue; no message
\* is POSTed more than MaxReceiveCount (3) times; a message that has left the
\* queue is never received or POSTed again.
C27_MessageTerminates ==
    /\ \A m \in 1..MaxMessages : (m \in Messages) ~> (m \in Messages /\ Terminal(m))
    /\ [](\A m \in Messages :
            /\ Len(queue[m].codes) <= MaxReceiveCount
            /\ queue[m].state = "deleted" => (queue[m].skipped \/ LastPostSucceeded(m)))
    /\ [][\A m \in Messages :
            Terminal(m) => /\ m \in DOMAIN queue'
                           /\ queue'[m].state = queue[m].state
                           /\ queue'[m].codes = queue[m].codes
                           /\ queue'[m].receive_count = queue[m].receive_count]_vars

\* a message was moved to the dead-letter queue after MaxReceiveCount POSTs,
\* none of them answered 2xx
C27_Witness ==
    \E m \in Messages :
        /\ queue[m].state = "dlq" /\ Len(queue[m].codes) = MaxReceiveCount
        /\ queue[m].receive_count = MaxReceiveCount
        /\ ~LastPostSucceeded(m)

LedgerHit(w) ==
    /\ call[w].op = "create"
    /\ \/ call[w].pc = "get_existing"
       \/ call[w].pc = "put_item" /\ call[w].id # MissingId

\* worker w takes this step (the start of another request only clears solo)
Steps(w) == [call'[w] EXCEPT !.solo = TRUE] # [call[w] EXCEPT !.solo = TRUE]

\* C38: the step that answers a request with 429 writes nothing: events,
\* ledger, webhooks, queue and the request counters stay as they are; and
\* every step of an endpoint handler belongs to a worker whose request was
\* not answered with 429.
C38_RejectedHasNoEffect ==
    [][\A w \in Workers :
          /\ (req[w].pc # "done" /\ req'[w].pc = "done" /\ req'[w].code = 429) =>
                /\ rate_limits' = rate_limits
                /\ events' = events /\ idempotency' = idempotency
                /\ webhooks' = webhooks /\ queue' = queue
                /\ call' = call
          /\ Steps(w) => (req[w].pc = "done" /\ req[w].code # 429)]_vars

\* a request was rejected by the conditional increment while the counter of
\* its window stood at the limit and an event of an admitted request existed
C38_Witness ==
    \E w \in Workers :
        /\ RDone(w) /\ req[w].code = 429
        /\ req[w].inc = "ConditionalCheckFailedException"
        /\ rate_limits[req[w].window_start] = RateLimit
        /\ \E e \in EventIds : events[e] # NoRow

\* C40: while an old key is rotating and its expires_at has not passed, it
\* and the key that replaced it pass validate_api_key; and a key that has
\* been expired, by status or by its expires_at, never passes
\* validate_api_key again, whatever rotations and handler runs follow.
C40_ExpiryIsFinal ==
    /\ \A k \in KeyIds :
          (/\ api_keys[k] # NoApiKey
           /\ api_keys[k].status = "rotating"
           /\ ~has_expired(api_keys[k], today)) =>
              /\ validate_api_key(api_keys, today, k)
              /\ \A n \in KeyIds :
                    (api_keys[n] # NoApiKey /\ api_keys[n].previous_version = k
                        /\ api_keys[n].status = "active") =>
                       validate_api_key(api_keys, today, n)
    /\ \A k \in h_expired : ~validate_api_key(api_keys, today, k)

\* C19: a Create whose ledger lookup found a record for its key writes neither
\* the events table nor the ledger, and the event it returns is the one the
\* record refers to, also when that event has been deleted since.
C19_LedgerHitWritesNothing ==
    [][\A w \in Workers :
         (LedgerHit(w) /\ Steps(w)) =>
            /\ events' = events
            /\ idempotency' = idempotency
            /\ call'[w].pc = "done" =>
                 call'[w].event.event_id = idempotency[call[w].key]]_vars

\* the key and the event id of the conditional write worker w is about to make
StoreKey(w) ==
    IF call[w].op = "create" THEN call[w].key
    ELSE call[w].batch[call[w].acc[call[w].i]].key

StoreId(w) ==
    IF call[w].op = "create" THEN call[w].id
    ELSE call[w].batch[call[w].acc[call[w].i]].event_id

Storing(w) ==
    /\ call[w].pc \in {"store_idempotency_key", "bulk_create_store"}
    /\ StoreKey(w) # NoKey

\* C20: a ledger record, once written, keeps its event_id through every later
\* step of every single or bulk Create; a store_idempotency_key that reports
\* True has written its event_id, one that reports False leaves the ledger as
\* it was.
C20_LedgerWriteOnce ==
    [][/\ \A k \in IdemKeys :
             idempotency[k] # NoItem => idempotency'[k] = idempotency[k]
       /\ \A w \in Workers :
             (Storing(w) /\ Steps(w)) =>
                IF store_idempotency_key_reports(idempotency, StoreKey(w))
                THEN idempotency'[StoreKey(w)] = StoreId(w)
                ELSE idempotency' = idempotency]_vars

\* a Create has put its event and lost the conditional write of its key
C20_Witness ==
    \E w \in Workers :
        /\ call[w].op = "create" /\ call[w].pc = "done" /\ call[w].key # NoKey
        /\ idempotency[call[w].key] # NoItem
        /\ call[w].event.event_id # idempotency[call[w].key]


\* ------------------------------------------------------- inbox pagination
RECURSIVE Concat(_)
Concat(pages) == IF pages = <<>> THEN <<>> ELSE Head(pages) \o Concat(Tail(pages))

\* the pending events, oldest first
PendingInOrder == EventIdsOf(PendingIndex(events))

\* the traversal has reached a page without next_cursor
TraversalDone == h_pages # <<>> /\ inbox.code = 200 /\ inbox.next_cursor.kind = "none"

\* C17: while no event is written, the pages got by calling the inbox with
\* limit k and following next_cursor hold the pending events in ascending
\* created_at order, each once and none skipped; every page before the last
\* holds exactly k events and the last one, which has no next_cursor, holds
\* the remainder.
C17_PaginationComplete ==
    h_pages # <<>> =>
        /\ Len(Concat(h_pages)) <= Len(PendingInOrder)
        /\ Concat(h_pages) = SubSeq(PendingInOrder, 1, Len(Concat(h_pages)))
        /\ \A j \in 1..(Len(h_pages) - 1) : Len(h_pages[j]) = inbox.limit
        /\ Len(h_pages[Len(h_pages)]) <= inbox.limit
        /\ inbox.next_cursor.kind # "none" => Len(h_pages[Len(h_pages)]) = inbox.limit
        /\ TraversalDone => Concat(h_pages) = PendingInOrder

C17_Witness ==
    /\ TraversalDone
    /\ Len(PendingInOrder) = 5
    /\ inbox.limit = 2
    /\ Len(h_pages) = 3
    /\ Len(h_pages[3]) = 1

\* C18: a GET /inbox whose cursor is not an encoded continuation token answers
\* 200 with the first page, as if no cursor had been sent.
C18_InvalidCursorFirstPage ==
    inbox.cursor \in InvalidCursors =>
        /\ inbox.code = 200
        /\ inbox.events = SubSeq(PendingInOrder, 1, Min(inbox.limit, Len(PendingInOrder)))

\* ------------------------------------------------------ delete and lookup
\* C22: once a DELETE of an event that existed has answered 200, the events
\* table holds no row with that event_id: get_event finds nothing and an
\* acknowledge of the id would answer 404.
C22_DeleteRemoves ==
    \A w \in Workers :
        (/\ call[w].op = "delete" /\ call[w].pc = "done"
         /\ call[w].code = 200 /\ call[w].pre # NoRow) =>
            /\ get_event(events, call[w].id) = NoRow
            /\ ack_failure_code(get_event(events, call[w].id)) = 404

\* -------------------------------------------------------------- bulk create
\* the items of worker w's batch with key k whose event was written
BulkWritten(w, k) ==
    {j \in DOMAIN call[w].batch :
        /\ call[w].batch[j].key = k
        /\ \/ events[call[w].batch[j].event_id] # NoRow
           \/ Removed(call[w].batch[j].event_id)}

\* C26: of the items of one bulk create that carry the same idempotency key
\* at most one gets an event row written: the others are answered with the
\* existing event.
C26_BulkCreateIdempotent ==
    \A w \in Workers, k \in IdemKeys :
        call[w].op = "bulk_create" => Cardinality(BulkWritten(w, k)) <= 1

\* -------------------------------------------------------- the ledger race
\* two finished Create calls with key k that each put an event of their own
BothCreated(w, v, k) ==
    /\ w # v /\ Done(w, "create") /\ Done(v, "create")
    /\ call[w].key = k /\ call[v].key = k
    /\ ~RemovedKey(k)
    /\ call[w].id # call[v].id

\* C30: two concurrent Create calls with one key that both missed the ledger
\* have both written an event row and both answered 201 with the event they
\* created themselves; the ledger maps the key to one row of the key, so at
\* least one of the two lost the conditional write, and the table holds two
\* rows for the key.
C30_LedgerRaceLoser ==
    \A w, v \in Workers, k \in IdemKeys :
        BothCreated(w, v, k) =>
            /\ call[w].code = 201 /\ call[v].code = 201
            /\ call[w].event.event_id = call[w].id
            /\ call[v].event.event_id = call[v].id
            /\ {call[w].id, call[v].id} \subseteq RowsOf(k)
            /\ idempotency[k] \in RowsOf(k)
            /\ \E u \in {w, v} : idempotency[k] # call[u].id
            /\ Cardinality(RowsOf(k)) >= 2

\* both calls are done, the ledger names the event of one of them
C30_Witness ==
    \E w, v \in Workers, k \in IdemKeys :
        /\ BothCreated(w, v, k)
        /\ idempotency[k] = call[w].id
        /\ call[v].event.event_id = call[v].id

LastOfPage == events[inbox.events[Len(inbox.events)]]

Foreign(p) ==
    /\ webhooks[wreq[p].id] # NoWebhook
    /\ webhooks[wreq[p].id].api_key # p

WebhookDone(p) == wreq[p].pc = "done" /\ wreq[p].op \in WebhookOps

\* C24: a get, update, delete or test request is answered with success only
\* to the owner of the webhook it read, one that read a webhook of another
\* principal is answered 404, no step of a request on a webhook of another
\* principal changes the webhooks table, and a list response holds only
\* webhooks of the caller.
C24_OwnershipIsolation ==
    [][\A p \in ApiKeys :
         LET r == wreq'[p] IN
         /\ (r.pc = "done" /\ r.op \in WebhookOps /\ r.code \in {200, 204}) =>
               r.webhook.api_key = p
         /\ (r.pc = "done" /\ r.op \in WebhookOps /\ r.webhook # NoWebhook
                           /\ r.webhook.api_key # p) => r.code = 404
         /\ (r.pc = "done" /\ r.op = "list") => \A item \in r.body : item.api_key = p
         /\ (r # wreq[p] /\ wreq[p].pc \notin {"idle", "done"} /\ Foreign(p)) =>
               webhooks' = webhooks]_vars

\* a request on a webhook of the other principal has been answered 404 while
\* the webhook is still there
C24_Witness ==
    \E p \in ApiKeys :
        /\ WebhookDone(p) /\ wreq[p].op = "delete" /\ wreq[p].code = 404
        /\ Foreign(p)

\* a record that carries the secret attribute of a webhook item
Exposes(item) == "secret" \in DOMAIN item

\* C25: no response of the create, list, get, update and test webhook
\* requests and no message on the delivery queue holds a webhook's secret.
C25_SecretNeverExposed ==
    /\ \A p \in ApiKeys : \A item \in wreq[p].body : ~Exposes(item)
    /\ \A m \in DOMAIN queue : ~Exposes(queue[m])

\* a list response with a webhook in it, a get response and a queued message
C25_Witness ==
    /\ queue # <<>>
    /\ \E p, q \in ApiKeys :
          /\ wreq[p].op = "list" /\ wreq[p].pc = "done" /\ wreq[p].body # {}
          /\ wreq[q].op = "get" /\ wreq[q].pc = "done" /\ wreq[q].code = 200

TypeOK ==
    /\ next_uuid \in 1..(MaxEvents + 1)
    /\ ncalls \in 0..MaxCalls
    /\ \A e \in EventIds : events[e] = NoRow \/ events[e].event_id = e
====
